---- MODULE Spec2Model ----
(***************************************************************************)
(* Model of the DDoS detection stream consumer                             *)
(* (analysis_stream/stream_consumer.py): the Redis store it works on, the  *)
(* DDoSDetector object, the per-record pipeline process_record and the     *)
(* consumption loop consume_stream / main.                                 *)
(*                                                                         *)
(* Time is in seconds.  Confidences are in percent (0.9 -> 90).            *)
(* Stream IDs are the positions 1, 2, ... of the entries of the input      *)
(* stream; the initial cursor '0' is 0.                                    *)
(***************************************************************************)
EXTENDS Integers, Sequences, FiniteSets, TLC

VARIABLES
    redis,      \* the Redis store: input stream, per-IP keys, alerts, globals
    det,        \* the DDoSDetector object's fields (process memory)
    pc,         \* where main() / consume_stream() stands
    last_id,    \* consume_stream's cursor (a local of the call)
    messages,   \* IDs of the batch returned by xread, not yet dispatched
    timeout_seconds, \* consume_stream's deadline argument (NoTimeout: None)
    start_time, \* consume_stream's local start_time
    now,        \* the wall clock, time.time()
    out,        \* what the process has shown outside: summaries, exit code
    hist        \* history of the run, read by the properties only

vars == <<redis, det, pc, last_id, messages, timeout_seconds, start_time, now, out, hist>>

----------------------------------------------------------------------------
(* Bounds of the model *)

MaxStream == 2
MaxTime == 60
MaxRestarts == 1
MaxSignals == 1
MaxFaults == 1
MaxCount == 3
MaxObsCount == 7
MaxObsPorts == 5
MaxSamples == 302
MaxSlowTicks == 2
MaxWindows == 3
MaxTwoLen == 3
MaxHalfHours == 5
MaxLongTicks == 2
RepeatLen == 8
LatencyLen == 5
MaxLatencyTime == 121

(* Program constants *)

HIGH_REQUEST_RATE == 5
PORT_SCAN_THRESHOLD == 3
NEW_IP_THRESHOLD == 2
BASELINE_WINDOW == 300
SIGMA_THRESHOLD == 2
BASELINE_MAXLEN == 300
MIN_BASELINE_SAMPLES == 10
COUNT_TTL == 60
PORTS_TTL == 60
FIRST_SEEN_TTL == 3600
BASELINE_TTL == 300
XREAD_COUNT == 10
SYN_MAX_PACKET == 100
UDP_MIN_PACKET == 2000
RETRY_PAUSE == 1

NoTimeout == -1
NoExpiry == -1

\* self.attack_windows, in declared order
attack_windows ==
    << [start |-> 15, end |-> 25, label |-> "SYN_FLOOD"],
       [start |-> 40, end |-> 50, label |-> "HTTP_FLOOD"],
       [start |-> 70, end |-> 80, label |-> "UDP_FLOOD"],
       [start |-> 95, end |-> 105, label |-> "AMPLIFICATION"] >>

----------------------------------------------------------------------------
(* Values of the semi-structured record fields, as extract_field returns   *)
(* them: an int, a purely numeric str, any other str, None, or no key;     *)
(* a float (of integral value n.0 here) or a bool (v = 1 for True).        *)

IntVal(n) == [t |-> "int", v |-> n]
DigitStr(n) == [t |-> "digits", v |-> n]
OtherStr(c) == [t |-> "str", v |-> c]
FloatVal(n) == [t |-> "float", v |-> n]
BoolVal(b) == [t |-> "bool", v |-> IF b THEN 1 ELSE 0]
NoneVal == [t |-> "none", v |-> 0]
Absent == [t |-> "absent", v |-> 0]
EmptyStr == OtherStr(0)
NoStr == "None"

\* the values Python compares as numbers: 80 == 80.0, True == 1
Numeric(x) == x.t \in {"int", "float", "bool"}

\* Python's == on two field values
SameValue(x, y) == IF Numeric(x) /\ Numeric(y) THEN x.v = y.v ELSE x = y

\* record.get(key): a missing key reads as None
Get(x) == IF x.t = "absent" THEN NoneVal ELSE x

\* record.get(key, ''): a missing key reads as the empty string
GetOrEmpty(x) == IF x.t = "absent" THEN EmptyStr ELSE x

\* record.get('packet_size', 0): a missing key reads as 0
GetOrZero(x) == IF x.t = "absent" THEN IntVal(0) ELSE x

\* if isinstance(x, str) and x.isdigit(): x = int(x)
CoerceDigits(x) == IF x.t = "digits" THEN IntVal(x.v) ELSE x

\* the packet_size normalisation of detect_layer3_patterns
PacketSize(x) ==
    LET p == GetOrZero(x)
    IN  IF p.t = "digits" THEN p.v
        ELSE IF p.t = "str" THEN 0
        ELSE IF p.t = "none" THEN 0
        ELSE p.v

\* the source_ip values that may name keys of the store
StoreIPs == {"10.0.0.5", "10.0.0.9", "", "nan"}

ValidIPs == {"10.0.0.5", "10.0.0.9"}

\* a record as consume_stream builds it from one stream entry
Rec(ip, proto, port, size, flags, method, resp, hour, minute, tsok) ==
    [source_ip |-> ip, dest_ip |-> "192.168.1.1", protocol |-> proto,
     dest_port |-> port, packet_size |-> size, flags |-> flags,
     http_method |-> method, response_time_ms |-> resp,
     ts |-> [ok |-> tsok, hour |-> hour, minute |-> minute],
     is_attack |-> FALSE]

\* the records the producer may append in the consumption-loop model
SynRec == Rec("10.0.0.5", "TCP", IntVal(22), IntVal(40), "SYN", NoStr, NoneVal, 0, 20, TRUE)
NoIpRec == Rec("", "UDP", IntVal(53), IntVal(3000), NoStr, NoStr, NoneVal, 0, 0, FALSE)
QuietRec == Rec("10.0.0.5", "TCP", IntVal(25), IntVal(500), "ACK", NoStr, IntVal(5), 3, 0, TRUE)

LoopRecords == {SynRec, NoIpRec, QuietRec}

\* a record of the usual source whose timestamp is not ISO 8601
BadTsRec == Rec("10.0.0.5", "TCP", IntVal(22), IntVal(40), "SYN", NoStr, NoneVal, 0, 20, FALSE)

\* a record whose source address is the text of a missing value
NanRec == Rec("nan", "TCP", IntVal(80), IntVal(40), "SYN", "GET", NoneVal, 0, 20, TRUE)

----------------------------------------------------------------------------
(* The Redis store *)

NoKey == [v |-> 0, exp |-> 0]
NoPorts == [v |-> <<>>, exp |-> 0]
NoFirstSeen == [set |-> FALSE, at |-> 0, exp |-> 0]

EmptyRedis ==
    [stream |-> <<>>,
     count |-> [ip \in StoreIPs |-> NoKey],
     ports |-> [ip \in StoreIPs |-> NoPorts],
     first_seen |-> [ip \in StoreIPs |-> NoFirstSeen],
     alerts |-> <<>>,
     alerts_total |-> 0,
     processed_records |-> 0,
     baseline_avg |-> [set |-> FALSE, num |-> 0, den |-> 1, exp |-> 0],
     baseline_std |-> [set |-> FALSE, sq |-> 0, exp |-> 0]]

Expired(e, t) == e # NoExpiry /\ e <= t

\* what the store drops when the clock reaches t
ExpireKeys(r, t) ==
    [r EXCEPT
        !.count = [ip \in StoreIPs |->
            IF r.count[ip].v > 0 /\ Expired(r.count[ip].exp, t) THEN NoKey ELSE r.count[ip]],
        !.ports = [ip \in StoreIPs |->
            IF r.ports[ip].v # <<>> /\ Expired(r.ports[ip].exp, t) THEN NoPorts ELSE r.ports[ip]],
        !.first_seen = [ip \in StoreIPs |->
            IF r.first_seen[ip].set /\ Expired(r.first_seen[ip].exp, t)
            THEN NoFirstSeen ELSE r.first_seen[ip]],
        !.baseline_avg = IF r.baseline_avg.set /\ Expired(r.baseline_avg.exp, t)
                         THEN EmptyRedis.baseline_avg ELSE r.baseline_avg,
        !.baseline_std = IF r.baseline_std.set /\ Expired(r.baseline_std.exp, t)
                         THEN EmptyRedis.baseline_std ELSE r.baseline_std]

\* DDoSDetector.__init__
NewDetector(t) ==
    [processed_records |-> 0,
     alerts_generated |-> 0,
     start_time |-> t,
     baseline_data |-> <<>>,
     ip_history |-> {}]

----------------------------------------------------------------------------
(* The working state of one process_record call: the store and the object  *)
(* as changed so far, the number of Redis calls made, and how the call     *)
(* ended.  fa is the Redis call that fails (0: none), fk what happens      *)
(* there: "raise" (the call raises), "sigint" (KeyboardInterrupt arrives). *)
(* fk "swallow": see process_record.                                       *)

NoObs == [some |-> FALSE, ip |-> "", count |-> 0, ports |-> <<>>, is_new_ip |-> FALSE]

Work(r, d, t, fa, fk) ==
    [r |-> r, d |-> d, t |-> t, n |-> 0, fa |-> fa, fk |-> fk, halt |-> "none",
     phase |-> "observe", ip_data |-> NoObs, alerts |-> <<>>]

\* one Redis command: it fails as the fault says, or takes effect
RedisCall(w, r2) ==
    IF w.halt # "none" THEN w
    ELSE IF w.n + 1 = w.fa THEN [w EXCEPT !.n = @ + 1, !.halt = w.fk]
    ELSE [w EXCEPT !.n = @ + 1, !.r = r2]

Phase(w, p) == IF w.halt # "none" THEN w ELSE [w EXCEPT !.phase = p]

----------------------------------------------------------------------------
(* Redis commands on the keys of the consumer *)

\* INCR ip:<ip>:count : a missing key counts from 0 and gets no expiry
Incr(r, ip) ==
    [r EXCEPT !.count[ip] =
        IF @.v = 0 THEN [v |-> 1, exp |-> NoExpiry] ELSE [@ EXCEPT !.v = @ + 1]]

\* mutant: the TTL is set only on a key that has none
ExpireCount_OnCreate(r, ip, t) ==
    IF r.count[ip].v = 0 \/ r.count[ip].exp # NoExpiry THEN r
    ELSE [r EXCEPT !.count[ip].exp = t + COUNT_TTL]

\* EXPIRE ip:<ip>:count 60
ExpireCount(r, ip, t) ==
    IF r.count[ip].v = 0 THEN r ELSE [r EXCEPT !.count[ip].exp = t + COUNT_TTL]

\* SETEX ip:<ip>:ports 60 <json list>
SetexPorts(r, ip, ports, t) == [r EXCEPT !.ports[ip] = [v |-> ports, exp |-> t + PORTS_TTL]]

\* SETEX ip:<ip>:first_seen 3600 <time>
SetexFirstSeen(r, ip, t) ==
    [r EXCEPT !.first_seen[ip] = [set |-> TRUE, at |-> t, exp |-> t + FIRST_SEEN_TTL]]

\* XADD alerts
XAddAlert(r, alert) == [r EXCEPT !.alerts = Append(@, alert)]

\* INCR global:alerts:total
IncrAlertsTotal(r) == [r EXCEPT !.alerts_total = @ + 1]

\* SET global:processed_records <n>
SetProcessed(r, n) == [r EXCEPT !.processed_records = n]

InList(x, s) == \E i \in 1..Len(s) : s[i] = x

\* dest_port in ports
InPorts(x, s) == \E i \in 1..Len(s) : SameValue(s[i], x)

\* mutant: only the empty source is rejected
ValidSource_EmptyOnly(ip) == ip # ""

\* if not source_ip or source_ip == 'nan': return None
ValidSource(ip) == ip # "" /\ ip # "nan"

----------------------------------------------------------------------------
(* DDoSDetector.update_ip_counters (the spec's observe) *)

\* mutant: the counter's value before the increment is returned
IncrResult_PreIncrement(w, ip) == w.r.count[ip].v - 1

\* the count INCR returned, as seen after the call
IncrResult(w, ip) == w.r.count[ip].v

ObserveCount(w, ip) ==
    LET w1 == RedisCall(w, Incr(w.r, ip))
    IN  RedisCall(w1, ExpireCount(w1.r, ip, w1.t))

\* mutant: the port is appended without looking into the list
ObservePorts_AlwaysAppend(w, ip, dest_port) ==
    LET w1 == RedisCall(w, w.r)
        added == Append(w1.r.ports[ip].v, dest_port)
        w2 == RedisCall(w1, SetexPorts(w1.r, ip, added, w1.t))
    IN  [w2 EXCEPT !.ip_data.ports = added]

\* mutant: the list is written back, and its TTL set, on every call
ObservePorts_Rearm(w, ip, dest_port) ==
    LET w1 == RedisCall(w, w.r)
        ports == w1.r.ports[ip].v
        added == IF InPorts(dest_port, ports) THEN ports ELSE Append(ports, dest_port)
        w2 == RedisCall(w1, SetexPorts(w1.r, ip, added, w1.t))
    IN  [w2 EXCEPT !.ip_data.ports = added]

ObservePorts(w, ip, dest_port) ==
    LET w1 == RedisCall(w, w.r)                  \* GET ip:<ip>:ports
        ports == w1.r.ports[ip].v
    IN  IF InPorts(dest_port, ports)
        THEN [w1 EXCEPT !.ip_data.ports = ports]
        ELSE LET added == Append(ports, dest_port)
                 w2 == RedisCall(w1, SetexPorts(w1.r, ip, added, w1.t))
             IN  [w2 EXCEPT !.ip_data.ports = added]

\* mutant: first_seen is written on every call
ObserveFirstSeen_Always(w, ip) ==
    LET w1 == RedisCall(w, w.r)
    IN  RedisCall(w1, SetexFirstSeen(w1.r, ip, w1.t))

ObserveFirstSeen(w, ip) ==
    LET w1 == RedisCall(w, w.r)                  \* EXISTS ip:<ip>:first_seen
    IN  IF w1.r.first_seen[ip].set THEN w1
        ELSE RedisCall(w1, SetexFirstSeen(w1.r, ip, w1.t))

update_ip_counters(w, record) ==
    LET ip == record.source_ip
        dest_port == CoerceDigits(GetOrEmpty(record.dest_port))
    IN  IF ~ValidSource(ip) THEN w
        ELSE
          LET w1 == ObserveCount(w, ip)
              current_count == IncrResult(w1, ip)
              w2 == ObservePorts(w1, ip, dest_port)
              w3 == ObserveFirstSeen(w2, ip)
          IN  IF w3.halt # "none" THEN w3
              ELSE [w3 EXCEPT !.ip_data =
                       [some |-> TRUE, ip |-> ip, count |-> current_count,
                        ports |-> w2.ip_data.ports,
                        is_new_ip |-> ip \notin w3.d.ip_history]]

----------------------------------------------------------------------------
(* Candidate alerts of the rule layers *)

Candidate(type, severity, ip, confidence) ==
    [type |-> type, severity |-> severity, source_ip |-> ip, confidence |-> confidence]

\* mutant: the rules are alternatives (elif): the first that holds wins
detect_layer1_attacks_FirstOnly(ip_data) ==
    IF ~ip_data.some THEN <<>>
    ELSE IF ip_data.count > HIGH_REQUEST_RATE
    THEN <<Candidate("HIGH_REQUEST_RATE", "HIGH", ip_data.ip, 90)>>
    ELSE IF Len(ip_data.ports) > PORT_SCAN_THRESHOLD
    THEN <<Candidate("PORT_SCAN", "MEDIUM", ip_data.ip, 80)>>
    ELSE IF ip_data.is_new_ip /\ ip_data.count > NEW_IP_THRESHOLD
    THEN <<Candidate("NEW_IP_ATTACK", "HIGH", ip_data.ip, 85)>>
    ELSE <<>>

\* mutant: the request-rate rule fires from the threshold on
detect_layer1_attacks_AtLeast(ip_data) ==
    IF ~ip_data.some THEN <<>>
    ELSE
      (IF ip_data.count >= HIGH_REQUEST_RATE
       THEN <<Candidate("HIGH_REQUEST_RATE", "HIGH", ip_data.ip, 90)>> ELSE <<>>)
      \o
      (IF Len(ip_data.ports) > PORT_SCAN_THRESHOLD
       THEN <<Candidate("PORT_SCAN", "MEDIUM", ip_data.ip, 80)>> ELSE <<>>)
      \o
      (IF ip_data.is_new_ip /\ ip_data.count > NEW_IP_THRESHOLD
       THEN <<Candidate("NEW_IP_ATTACK", "HIGH", ip_data.ip, 85)>> ELSE <<>>)

\* mutant: a rule fires when its threshold is crossed, not on every record
\* above it
detect_layer1_attacks_OnCrossing(ip_data) ==
    IF ~ip_data.some THEN <<>>
    ELSE
      (IF ip_data.count = HIGH_REQUEST_RATE + 1
       THEN <<Candidate("HIGH_REQUEST_RATE", "HIGH", ip_data.ip, 90)>> ELSE <<>>)
      \o
      (IF Len(ip_data.ports) = PORT_SCAN_THRESHOLD + 1
       THEN <<Candidate("PORT_SCAN", "MEDIUM", ip_data.ip, 80)>> ELSE <<>>)
      \o
      (IF ip_data.is_new_ip /\ ip_data.count > NEW_IP_THRESHOLD
       THEN <<Candidate("NEW_IP_ATTACK", "HIGH", ip_data.ip, 85)>> ELSE <<>>)

\* DDoSDetector.detect_layer1_attacks
detect_layer1_attacks(ip_data) ==
    IF ~ip_data.some THEN <<>>
    ELSE
      (IF ip_data.count > HIGH_REQUEST_RATE
       THEN <<Candidate("HIGH_REQUEST_RATE", "HIGH", ip_data.ip, 90)>> ELSE <<>>)
      \o
      (IF Len(ip_data.ports) > PORT_SCAN_THRESHOLD
       THEN <<Candidate("PORT_SCAN", "MEDIUM", ip_data.ip, 80)>> ELSE <<>>)
      \o
      (IF ip_data.is_new_ip /\ ip_data.count > NEW_IP_THRESHOLD
       THEN <<Candidate("NEW_IP_ATTACK", "HIGH", ip_data.ip, 85)>> ELSE <<>>)

\* DDoSDetector.update_baseline: one sample of value 1 at the current time,
\* in a deque(maxlen=300), then the samples older than the window leave
RECURSIVE DropOld(_, _)
DropOld(s, cutoff) ==
    IF s # <<>> /\ Head(s).timestamp < cutoff THEN DropOld(Tail(s), cutoff) ELSE s

DequeAppend(s, x) ==
    IF Len(s) >= BASELINE_MAXLEN THEN Append(Tail(s), x) ELSE Append(s, x)

\* mutant: the sample is the number of requests of the window so far
update_baseline_Aggregated(d, t) ==
    [d EXCEPT !.baseline_data =
        DropOld(DequeAppend(@, [timestamp |-> t, requests_per_minute |-> Len(@) + 1]),
                t - BASELINE_WINDOW)]

update_baseline(d, t) ==
    [d EXCEPT !.baseline_data =
        DropOld(DequeAppend(@, [timestamp |-> t, requests_per_minute |-> 1]),
                t - BASELINE_WINDOW)]

RECURSIVE SumRates(_)
SumRates(s) == IF s = <<>> THEN 0 ELSE Head(s).requests_per_minute + SumRates(Tail(s))

\* sum over the samples of (n*x - S)^2: n^2 (n-1) times the sample variance
RECURSIVE SumSqDev(_, _, _)
SumSqDev(s, n, total) ==
    IF s = <<>> THEN 0
    ELSE (n * Head(s).requests_per_minute - total) * (n * Head(s).requests_per_minute - total)
         + SumSqDev(Tail(s), n, total)

\* statistics.mean / statistics.stdev of the window, kept exact:
\* mean = total / n, stdev^2 = sq / (n^2 (n - 1))
BaselineStats(samples) ==
    LET n == Len(samples)
        total == SumRates(samples)
    IN  [n |-> n, total |-> total,
         sq |-> IF n > 1 THEN SumSqDev(samples, n, total) ELSE 0]

\* current_rate > baseline_avg + sigma_threshold * baseline_std
AboveThreshold(count, st) ==
    LET lhs == st.n * count - st.total
    IN  lhs > 0 /\ lhs * lhs * (st.n - 1) > SIGMA_THRESHOLD * SIGMA_THRESHOLD * st.sq

SetexBaselineAvg(r, st, t) ==
    [r EXCEPT !.baseline_avg = [set |-> TRUE, num |-> st.total, den |-> st.n,
                                exp |-> t + BASELINE_TTL]]

SetexBaselineStd(r, st, t) ==
    [r EXCEPT !.baseline_std = [set |-> TRUE, sq |-> st.sq, exp |-> t + BASELINE_TTL]]

\* mutant: the test that the standard deviation is positive is left out
detect_layer2_anomalies_NoStdGuard(w) ==
    IF w.halt # "none" \/ Len(w.d.baseline_data) < MIN_BASELINE_SAMPLES THEN w
    ELSE
      LET st == BaselineStats(w.d.baseline_data)
          w1 == RedisCall(w, SetexBaselineAvg(w.r, st, w.t))
          w2 == RedisCall(w1, SetexBaselineStd(w1.r, st, w1.t))
      IN  IF w2.halt # "none" THEN w2
          ELSE IF w2.ip_data.some /\ AboveThreshold(w2.ip_data.count, st)
          THEN [w2 EXCEPT !.alerts =
                   @ \o <<Candidate("ANOMALOUS_TRAFFIC", "MEDIUM", w2.ip_data.ip, 70)>>]
          ELSE w2

\* mutant: the statistics are computed and stored whatever the window holds
detect_layer2_anomalies_NoMinimum(w) ==
    IF w.halt # "none" \/ Len(w.d.baseline_data) < 1 THEN w
    ELSE
      LET st == BaselineStats(w.d.baseline_data)
          w1 == RedisCall(w, SetexBaselineAvg(w.r, st, w.t))
          w2 == RedisCall(w1, SetexBaselineStd(w1.r, st, w1.t))
      IN  IF w2.halt # "none" THEN w2
          ELSE IF w2.ip_data.some /\ st.sq > 0 /\ AboveThreshold(w2.ip_data.count, st)
          THEN [w2 EXCEPT !.alerts =
                   @ \o <<Candidate("ANOMALOUS_TRAFFIC", "MEDIUM", w2.ip_data.ip, 70)>>]
          ELSE w2

\* DDoSDetector.detect_layer2_anomalies; its candidates are appended to w.alerts
detect_layer2_anomalies(w) ==
    IF w.halt # "none" \/ Len(w.d.baseline_data) < MIN_BASELINE_SAMPLES THEN w
    ELSE
      LET st == BaselineStats(w.d.baseline_data)
          w1 == RedisCall(w, SetexBaselineAvg(w.r, st, w.t))
          w2 == RedisCall(w1, SetexBaselineStd(w1.r, st, w1.t))
      IN  IF w2.halt # "none" THEN w2
          ELSE IF w2.ip_data.some /\ st.sq > 0 /\ AboveThreshold(w2.ip_data.count, st)
          THEN [w2 EXCEPT !.alerts =
                   @ \o <<Candidate("ANOMALOUS_TRAFFIC", "MEDIUM", w2.ip_data.ip, 70)>>]
          ELSE w2

\* DDoSDetector.detect_layer3_patterns
HTTP_PORTS == {80, 443, 8080}

\* mutant: a dest_port that arrives as numeric text is compared as text
detect_layer3_patterns_NoCoerce(record) ==
    LET packet_size == PacketSize(record.packet_size)
        dest_port == Get(record.dest_port)
    IN
      (IF /\ record.protocol = "TCP"
          /\ record.flags = "SYN"
          /\ Get(record.response_time_ms).t = "none"
          /\ packet_size < SYN_MAX_PACKET
       THEN <<Candidate("SYN_FLOOD_SUSPECT", "MEDIUM", record.source_ip, 60)>> ELSE <<>>)
      \o
      (IF /\ Numeric(dest_port) /\ dest_port.v \in HTTP_PORTS
          /\ record.http_method \in {"GET", "POST"}
       THEN <<Candidate("HTTP_FLOOD_SUSPECT", "MEDIUM", record.source_ip, 50)>> ELSE <<>>)
      \o
      (IF record.protocol = "UDP" /\ packet_size > UDP_MIN_PACKET
       THEN <<Candidate("UDP_AMPLIFICATION_SUSPECT", "HIGH", record.source_ip, 80)>> ELSE <<>>)

detect_layer3_patterns(record) ==
    LET packet_size == PacketSize(record.packet_size)
        dest_port == CoerceDigits(Get(record.dest_port))
    IN
      (IF /\ record.protocol = "TCP"
          /\ record.flags = "SYN"
          /\ Get(record.response_time_ms).t = "none"
          /\ packet_size < SYN_MAX_PACKET
       THEN <<Candidate("SYN_FLOOD_SUSPECT", "MEDIUM", record.source_ip, 60)>> ELSE <<>>)
      \o
      (IF /\ Numeric(dest_port) /\ dest_port.v \in HTTP_PORTS
          /\ record.http_method \in {"GET", "POST"}
       THEN <<Candidate("HTTP_FLOOD_SUSPECT", "MEDIUM", record.source_ip, 50)>> ELSE <<>>)
      \o
      (IF record.protocol = "UDP" /\ packet_size > UDP_MIN_PACKET
       THEN <<Candidate("UDP_AMPLIFICATION_SUSPECT", "HIGH", record.source_ip, 80)>> ELSE <<>>)

\* mutant: the end of a window belongs to it
RECURSIVE FirstWindow_Inclusive(_, _)
FirstWindow_Inclusive(windows, minute) ==
    IF windows = <<>> THEN <<>>
    ELSE IF Head(windows).start <= minute /\ minute <= Head(windows).end
    THEN <<Head(windows)>>
    ELSE FirstWindow_Inclusive(Tail(windows), minute)

\* DDoSDetector.correlate_with_known_attacks
RECURSIVE FirstWindow(_, _)
FirstWindow(windows, minute) ==
    IF windows = <<>> THEN <<>>
    ELSE IF Head(windows).start <= minute /\ minute < Head(windows).end
    THEN <<Head(windows)>>
    ELSE FirstWindow(Tail(windows), minute)

correlate_with_known_attacks(record) ==
    IF ~record.ts.ok THEN <<>>
    ELSE
      LET current_minute == record.ts.hour * 60 + record.ts.minute
          hit == FirstWindow(attack_windows, current_minute)
      IN  IF hit = <<>> THEN <<>>
          ELSE <<Candidate("KNOWN_" \o hit[1].label, "HIGH", record.source_ip, 95)>>

----------------------------------------------------------------------------
(* DDoSDetector.generate_alert: the alert is appended to the alerts stream, *)
(* then counted in the object and in global:alerts:total                   *)

\* the alert dict
AlertDict(alert_data, record) ==
    [alert_type |-> alert_data.type,
     severity |-> alert_data.severity,
     source_ip |-> alert_data.source_ip,
     dest_ip |-> record.dest_ip,
     protocol |-> record.protocol,
     confidence |-> alert_data.confidence]

\* JSON text is kept as tokens.  A str is written as a JSON string.
JsonString(s) == [j |-> "string", text |-> s]

\* mutant: a number is written with one decimal place
JsonNumber_OneDecimal(p) == [j |-> "number", whole |-> p \div 100, frac |-> <<(p % 100) \div 10>>]

\* A float is written as its shortest decimal text: 0.9 -> 0.9,
\* 0.85 -> 0.85 (p is the float in hundredths).
JsonNumber(p) ==
    [j |-> "number", whole |-> p \div 100,
     frac |-> IF p % 10 = 0 THEN <<(p % 100) \div 10>>
              ELSE <<(p % 100) \div 10, p % 10>>]

\* json.dumps(alert, default=str)
json_dumps(alert) ==
    [alert_type |-> JsonString(alert.alert_type),
     severity |-> JsonString(alert.severity),
     source_ip |-> JsonString(alert.source_ip),
     dest_ip |-> JsonString(alert.dest_ip),
     protocol |-> JsonString(alert.protocol),
     confidence |-> JsonNumber(alert.confidence)]

\* the value a JSON token is read back as (numbers in hundredths)
JsonValue(token) ==
    IF token.j = "string" THEN token.text
    ELSE token.whole * 100 + token.frac[1] * 10
         + (IF Len(token.frac) > 1 THEN token.frac[2] ELSE 0)

\* json.loads of the 'alert' field of an entry of the alerts stream
json_loads(text) == [k \in DOMAIN text |-> JsonValue(text[k])]

\* the entry of the alerts stream: its field 'alert' is the JSON text; the
\* fields of the dict it was made from are kept beside it
Alert(alert_data, record) ==
    LET alert == AlertDict(alert_data, record)
    IN  [alert_type |-> alert.alert_type,
         severity |-> alert.severity,
         source_ip |-> alert.source_ip,
         dest_ip |-> alert.dest_ip,
         protocol |-> alert.protocol,
         confidence |-> alert.confidence,
         alert |-> json_dumps(alert)]

CountAlert(w) == IF w.halt # "none" THEN w ELSE [w EXCEPT !.d.alerts_generated = @ + 1]

\* mutant: an XADD that raised is tried once more
generate_alert_Retry(w, alert_data, record) ==
    LET w1 == RedisCall(w, XAddAlert(w.r, Alert(alert_data, record)))
        w2 == IF w.halt = "none" /\ w1.halt = "raise"
              THEN RedisCall([w1 EXCEPT !.halt = "none"],
                             XAddAlert(w1.r, Alert(alert_data, record)))
              ELSE w1
        w3 == CountAlert(w2)
    IN  RedisCall(w3, IncrAlertsTotal(w3.r))

generate_alert(w, alert_data, record) ==
    LET w1 == RedisCall(w, XAddAlert(w.r, Alert(alert_data, record)))
        w2 == CountAlert(w1)
    IN  RedisCall(w2, IncrAlertsTotal(w2.r))

\* mutant: each alert is published under its own try / except, and the call
\* goes on with the next one
RECURSIVE EmitAll_Continue(_, _, _)
EmitAll_Continue(w, alerts, record) ==
    IF alerts = <<>> \/ w.halt # "none" THEN w
    ELSE LET w1 == generate_alert(w, Head(alerts), record)
         IN  EmitAll_Continue(IF w1.halt = "raise" THEN [w1 EXCEPT !.halt = "none"] ELSE w1,
                              Tail(alerts), record)

RECURSIVE EmitAll(_, _, _)
EmitAll(w, alerts, record) ==
    IF alerts = <<>> \/ w.halt # "none" THEN w
    ELSE EmitAll(generate_alert(w, Head(alerts), record), Tail(alerts), record)

----------------------------------------------------------------------------
(* DDoSDetector.process_record.  A KeyboardInterrupt that arrives inside   *)
(* the try block of correlate_with_known_attacks is taken by its bare      *)
(* except: Layer 4 returns no alert and the call goes on (fk "swallow").   *)

Layer4(w, record) ==
    IF w.fk = "swallow" THEN <<>> ELSE correlate_with_known_attacks(record)

\* mutant: the candidates of Layers 1, 3 and 4 are published before Layer 2
\* has run
RunLayers_EmitEarly(w, record) ==
    LET found == detect_layer1_attacks(w.ip_data) \o detect_layer3_patterns(record)
                 \o correlate_with_known_attacks(record)
        w1 == EmitAll(w, found, record)
    IN  detect_layer2_anomalies(w1)

\* mutant: the pattern layer is skipped when a threshold rule has fired
RunLayers_Suppress(w, record) ==
    LET w1 == [w EXCEPT !.alerts = detect_layer1_attacks(w.ip_data)]
        w2 == detect_layer2_anomalies(w1)
    IN  IF w2.halt # "none" THEN w2
        ELSE [w2 EXCEPT !.alerts =
                 @ \o (IF w1.alerts = <<>> THEN detect_layer3_patterns(record) ELSE <<>>)
                   \o Layer4(w2, record)]

\* mutant: the exception of an unparseable timestamp leaves Layer 4
RunLayers_Layer4Raises(w, record) ==
    LET w1 == [w EXCEPT !.alerts = detect_layer1_attacks(w.ip_data)]
        w2 == detect_layer2_anomalies(w1)
    IN  IF w2.halt # "none" THEN w2
        ELSE IF ~record.ts.ok THEN [w2 EXCEPT !.halt = "raise"]
        ELSE [w2 EXCEPT !.alerts = @ \o detect_layer3_patterns(record) \o Layer4(w2, record)]

RunLayers(w, record) ==
    LET w1 == [w EXCEPT !.alerts = detect_layer1_attacks(w.ip_data)]
        w2 == detect_layer2_anomalies(w1)
    IN  IF w2.halt # "none" THEN w2
        ELSE [w2 EXCEPT !.alerts = @ \o detect_layer3_patterns(record) \o Layer4(w2, record)]

\* mutant: the recency map is never written
UpdateHistory_Never(w) == w

UpdateHistory(w) ==
    IF w.halt # "none" \/ ~w.ip_data.some THEN w
    ELSE [w EXCEPT !.d.ip_history = @ \cup {w.ip_data.ip}]

UpdateMetrics(w) ==
    IF w.halt # "none" THEN w
    ELSE LET w1 == [w EXCEPT !.d.processed_records = @ + 1]
         IN  RedisCall(w1, SetProcessed(w1.r, w1.d.processed_records))

Baseline(w) == IF w.halt # "none" THEN w ELSE [w EXCEPT !.d = update_baseline(@, w.t)]

\* mutant: a record without an observation is dropped after update_ip_counters
process_record_DropInvalid(w, record) ==
    LET w1 == update_ip_counters(Phase(w, "observe"), record)
        w2 == Baseline(w1)
        w3 == RunLayers(Phase(w2, "rules"), record)
        w4 == EmitAll(Phase(w3, "emit"), w3.alerts, record)
        w5 == UpdateHistory(w4)
        w6 == UpdateMetrics(Phase(w5, "metrics"))
    IN  IF w1.halt = "none" /\ ~w1.ip_data.some THEN Phase(w1, "done") ELSE Phase(w6, "done")

process_record(w, record) ==
    LET w1 == update_ip_counters(Phase(w, "observe"), record)
        w2 == Baseline(w1)
        w3 == RunLayers(Phase(w2, "rules"), record)
        w4 == EmitAll(Phase(w3, "emit"), w3.alerts, record)
        w5 == UpdateHistory(w4)
        w6 == UpdateMetrics(Phase(w5, "metrics"))
    IN  Phase(w6, "done")

----------------------------------------------------------------------------
(* main() and DDoSDetector.consume_stream as a state machine.              *)
(* pc: "start" (main, before test_connection), "loop" (top of while True), *)
(* "read" (at xread), "retry" (in the pause after a failed read),          *)
(* "dispatch" (in the for loop over the batch), "stopped" (consume_stream  *)
(* has left its loop), "exited" (the process has ended), "crashed" (the    *)
(* process was killed).  The clock moves by Tick only.                     *)

TickSteps == {30}
Timeouts == {NoTimeout, 0, 20}
NoExit == -1

Running == pc \in {"loop", "read", "retry", "dispatch"}

NoOutput == [summaries |-> 0, exit_code |-> NoExit, stop_msg |-> "none"]

\* the last process_record / update_ip_counters call of the run
NoLast ==
    [id |-> 0, halt |-> "none", phase |-> "none", published |-> 0, obs |-> NoObs,
     fk |-> "none",        \* the fault the call met
     fa |-> 0,             \* the Redis call of the call at which it met the fault
     calls |-> 0,          \* the Redis calls the call made
     cands |-> <<>>]       \* the candidates of a rule layer evaluated on its own

NoHist ==
    [acked |-> 0,          \* the highest cursor value any run has reached
     run_ids |-> <<>>,     \* the IDs this run has passed to process_record
     last |-> NoLast,
     restarts |-> 0,
     signals |-> 0,        \* KeyboardInterrupts delivered to this run
     faults |-> 0,         \* process_record calls of this run that met a fault
     sources |-> {},       \* the sources update_ip_counters has observed in this run
     ticks |-> <<>>,       \* the times of the update_baseline calls made on their own
     by |-> <<>>,          \* per consumer instance, what it made of each record
     epoch_obs |-> [ip \in StoreIPs |-> 0],
     epoch_ports |-> [ip \in StoreIPs |-> {}],
     long_ticks |-> 0]     \* steps of two thirds of the baseline window

InitWith(stream, timeouts, at) ==
    /\ redis = [EmptyRedis EXCEPT !.stream = stream]
    /\ det = NewDetector(0)
    /\ pc = at
    /\ last_id = 0
    /\ messages = <<>>
    /\ timeout_seconds \in timeouts
    /\ start_time = 0
    /\ now = 0
    /\ out = NoOutput
    /\ hist = NoHist

Init == InitWith(<<>>, Timeouts, "start")

\* if timeout_seconds and (time.time() - start_time) > timeout_seconds
TimeoutReached ==
    /\ timeout_seconds # NoTimeout
    /\ timeout_seconds # 0
    /\ now - start_time > timeout_seconds

\* the stream entries after the cursor, at most count=10 of them
XRead(stream, cursor) ==
    [i \in 1..(IF Len(stream) - cursor > XREAD_COUNT THEN XREAD_COUNT ELSE Len(stream) - cursor)
        |-> cursor + i]

\* main: test_connection succeeds and consume_stream is entered
ConnectOK ==
    /\ pc = "start"
    /\ pc' = "loop"
    /\ last_id' = 0
    /\ start_time' = now
    /\ messages' = <<>>
    /\ UNCHANGED <<redis, det, timeout_seconds, now, out, hist>>

\* main: ping raises ConnectionError; "Cannot proceed", sys.exit(1)
ConnectFail ==
    /\ pc = "start"
    /\ pc' = "exited"
    /\ out' = [out EXCEPT !.exit_code = 1]
    /\ UNCHANGED <<redis, det, last_id, messages, timeout_seconds, start_time, now, hist>>

\* top of the while loop: the deadline check
CheckTimeout ==
    /\ pc = "loop"
    /\ IF TimeoutReached
       THEN /\ pc' = "stopped"
            /\ out' = [out EXCEPT !.stop_msg = "timeout"]
       ELSE /\ pc' = "read"
            /\ out' = out
    /\ UNCHANGED <<redis, det, last_id, messages, timeout_seconds, start_time, now, hist>>

\* xread returns nothing within block_time: continue
ReadEmpty ==
    /\ pc = "read"
    /\ Len(redis.stream) <= last_id
    /\ pc' = "loop"
    /\ UNCHANGED <<redis, det, last_id, messages, timeout_seconds, start_time, now, out, hist>>

\* mutant: a failed read starts over from the beginning of the stream
ReadFail_ResetCursor ==
    /\ pc = "read"
    /\ pc' = "retry"
    /\ last_id' = 0
    /\ UNCHANGED <<redis, det, messages, timeout_seconds, start_time, now, out, hist>>

\* xread raises: except Exception, then the pause
ReadFail ==
    /\ pc = "read"
    /\ pc' = "retry"
    /\ UNCHANGED <<redis, det, last_id, messages, timeout_seconds, start_time, now, out, hist>>

\* mutant: the loop is left after the pause instead of reading again
Retry_GiveUp ==
    /\ pc = "retry"
    /\ pc' = "stopped"
    /\ UNCHANGED <<redis, det, last_id, messages, timeout_seconds, start_time, now, out, hist>>

\* time.sleep(1) is over
Retry ==
    /\ pc = "retry"
    /\ pc' = "loop"
    /\ UNCHANGED <<redis, det, last_id, messages, timeout_seconds, start_time, now, out, hist>>

\* xread returns a batch
ReadBatch ==
    /\ pc = "read"
    /\ Len(redis.stream) > last_id
    /\ messages' = XRead(redis.stream, last_id)
    /\ pc' = "dispatch"
    /\ UNCHANGED <<redis, det, last_id, timeout_seconds, start_time, now, out, hist>>

NoFault == [fa |-> 0, fk |-> "none"]

\* what can go wrong in a process_record call that makes n Redis calls when
\* nothing does: one of the calls raises, or a KeyboardInterrupt arrives at
\* one of them or inside the try block of Layer 4
Faults(n) ==
    {NoFault, [fa |-> 0, fk |-> "swallow"]}
    \cup {[fa |-> k, fk |-> kind] : k \in 1..n, kind \in {"raise", "sigint"}}

\* a Redis call raises, in at most MaxFaults calls of process_record per run
FewFaults(n) ==
    IF hist.faults < MaxFaults THEN {NoFault} \cup {[fa |-> k, fk |-> "raise"] : k \in 1..n}
    ELSE {NoFault}

NoFaults(n) == {NoFault}

\* the fault assumption of a specification, by name
FaultSet(assumed, n) ==
    CASE assumed = "faults" -> Faults(n)
      [] assumed = "few" -> FewFaults(n)
      [] OTHER -> NoFaults(n)

\* mutant: process_record without its try / except
Returned_NoCatch(halt) == halt = "none"

\* process_record's try / except Exception: the call returns unless a
\* BaseException (KeyboardInterrupt) passes through it
Returned(halt) == halt \in {"none", "raise"}

\* mutant: the cursor is not moved
Advance_Stale(cursor, message_id) == cursor

\* the cursor after process_record has returned: last_id = message_id
Advance(cursor, message_id) == message_id

Dispatched(h, id, w, before) ==
    [h EXCEPT !.run_ids = Append(@, id),
              !.last = [id |-> id, halt |-> w.halt, phase |-> w.phase,
                        published |-> Len(w.r.alerts) - before,
                        obs |-> w.ip_data, fk |-> w.fk, fa |-> w.fa, calls |-> w.n,
                        cands |-> <<>>],
              !.sources = IF w.ip_data.some THEN @ \cup {w.ip_data.ip} ELSE @,
              !.signals = IF w.fk \in {"sigint", "swallow"} THEN @ + 1 ELSE @,
              !.faults = IF w.fk # "none" THEN @ + 1 ELSE @,
              !.acked = IF Returned(w.halt) /\ id > @ THEN id ELSE @]

\* one pass of the for loop: the next message of the batch goes through
\* process_record, which returns (last_id = message_id) or is interrupted
\* (except KeyboardInterrupt: break); an exception that left process_record
\* would reach except Exception of consume_stream (pause, next read)
Dispatch(assumed) ==
    /\ pc = "dispatch"
    /\ messages # <<>>
    /\ \E f \in FaultSet(assumed, process_record(Work(redis, det, now, 0, "none"),
                                                 redis.stream[Head(messages)]).n) :
         LET id == Head(messages)
             w == process_record(Work(redis, det, now, f.fa, f.fk), redis.stream[id])
         IN  /\ f.fk \in {"sigint", "swallow"} => hist.signals < MaxSignals
             /\ redis' = w.r
             /\ det' = w.d
             /\ hist' = Dispatched(hist, id, w, Len(redis.alerts))
             /\ CASE Returned(w.halt) ->
                       /\ last_id' = Advance(last_id, id)
                       /\ messages' = Tail(messages)
                       /\ pc' = IF Tail(messages) = <<>> THEN "loop" ELSE "dispatch"
                       /\ out' = out
                  [] ~Returned(w.halt) /\ w.halt = "sigint" ->
                       /\ pc' = "stopped"
                       /\ out' = [out EXCEPT !.stop_msg = "user"]
                       /\ UNCHANGED <<last_id, messages>>
                  [] OTHER ->
                       /\ pc' = "retry"
                       /\ messages' = <<>>
                       /\ UNCHANGED <<last_id, out>>
    /\ UNCHANGED <<timeout_seconds, start_time, now>>

\* KeyboardInterrupt outside process_record: at the deadline check, in
\* xread, in the pause or between two records; the loop is left
Signal ==
    /\ Running
    /\ hist.signals < MaxSignals
    /\ pc' = "stopped"
    /\ out' = [out EXCEPT !.stop_msg = "user"]
    /\ hist' = [hist EXCEPT !.signals = @ + 1]
    /\ UNCHANGED <<redis, det, last_id, messages, timeout_seconds, start_time, now>>

\* KeyboardInterrupt in main before the try block: no handler, no summary
SignalAtStart ==
    /\ pc = "start"
    /\ hist.signals < MaxSignals
    /\ pc' = "exited"
    /\ out' = [out EXCEPT !.exit_code = 130]
    /\ hist' = [hist EXCEPT !.signals = @ + 1]
    /\ UNCHANGED <<redis, det, last_id, messages, timeout_seconds, start_time, now>>

\* mutant: the process ends without the summary
print_summary_Silent ==
    /\ pc = "stopped"
    /\ pc' = "exited"
    /\ out' = [out EXCEPT !.exit_code = 0]
    /\ UNCHANGED <<redis, det, last_id, messages, timeout_seconds, start_time, now, hist>>

\* main's finally: print_summary, then the process ends
print_summary ==
    /\ pc = "stopped"
    /\ pc' = "exited"
    /\ out' = [out EXCEPT !.summaries = @ + 1, !.exit_code = 0]
    /\ UNCHANGED <<redis, det, last_id, messages, timeout_seconds, start_time, now, hist>>

\* the process is killed; its memory is gone, the store stays
Crash ==
    /\ Running
    /\ pc' = "crashed"
    /\ det' = NewDetector(0)
    /\ last_id' = 0
    /\ messages' = <<>>
    /\ UNCHANGED <<redis, timeout_seconds, start_time, now, out, hist>>

\* the consumer is started again: a new process runs main()
Restart ==
    /\ pc \in {"crashed", "exited"}
    /\ hist.restarts < MaxRestarts
    /\ pc' = "start"
    /\ det' = NewDetector(now)
    /\ last_id' = 0
    /\ messages' = <<>>
    /\ out' = NoOutput
    /\ hist' = [hist EXCEPT !.restarts = @ + 1, !.run_ids = <<>>, !.last = NoLast,
                            !.signals = 0, !.faults = 0, !.sources = {}]
    /\ UNCHANGED <<redis, timeout_seconds, start_time, now>>

\* the producer appends a record to the input stream (send_record's xadd)
Produce ==
    /\ Len(redis.stream) < MaxStream
    /\ \E rec \in LoopRecords : redis' = [redis EXCEPT !.stream = Append(@, rec)]
    /\ UNCHANGED <<det, pc, last_id, messages, timeout_seconds, start_time, now, out, hist>>

\* the clock advances; the store drops the keys whose TTL has run out
Tick ==
    /\ \E d \in TickSteps :
         /\ now + d <= MaxTime
         /\ now' = now + d
         /\ redis' = ExpireKeys(redis, now + d)
    /\ UNCHANGED <<det, pc, last_id, messages, timeout_seconds, start_time, out, hist>>

\* process_record under the fault assumptions of the specifications
DispatchFaulty == Dispatch("faults")
DispatchFewFaults == Dispatch("few")
DispatchClean == Dispatch("none")

----------------------------------------------------------------------------
(* Spec: the consumer in one run, with store faults and stop signals *)

Next ==
    \/ ConnectOK
    \/ ConnectFail
    \/ CheckTimeout
    \/ ReadEmpty
    \/ ReadFail
    \/ Retry
    \/ ReadBatch
    \/ DispatchFaulty
    \/ Signal
    \/ SignalAtStart
    \/ print_summary
    \/ Produce
    \/ Tick

Spec == Init /\ [][Next]_vars

(* SpecRestart: the consumer killed between two steps and started again *)

NextRestart ==
    \/ ConnectOK
    \/ CheckTimeout
    \/ ReadEmpty
    \/ ReadBatch
    \/ DispatchClean
    \/ print_summary
    \/ Crash
    \/ Restart
    \/ Produce
    \/ Tick

SpecRestart == Init /\ [][NextRestart]_vars

(* SpecLong: a run over a stream long enough to fill the baseline window   *)
(* to its minimum and to need two batches, with store faults               *)

LongStream == [i \in 1..(MIN_BASELINE_SAMPLES + 1) |-> SynRec]

\* the long stream with one record replaced by one that has no valid source
Replaced(stream, k, record) == [i \in 1..Len(stream) |-> IF i = k THEN record ELSE stream[i]]

LongStreams ==
    {LongStream,
     Replaced(LongStream, 3, NoIpRec),
     Replaced(LongStream, HIGH_REQUEST_RATE + 2, BadTsRec),
     Replaced(LongStream, MIN_BASELINE_SAMPLES, NanRec),
     Replaced(LongStream, MIN_BASELINE_SAMPLES + 1, NoIpRec)}

InitLong == \E stream \in LongStreams : InitWith(stream, {NoTimeout}, "start")

NextLong ==
    \/ ConnectOK
    \/ CheckTimeout
    \/ ReadEmpty
    \/ ReadBatch
    \/ DispatchFewFaults

SpecLong == InitLong /\ [][NextLong]_vars

(* SpecLive: a run whose steps are always taken in the end (every step of  *)
(* the loop returns: xread within block_time, the pause within a second)   *)

LoopStep ==
    \/ ConnectOK
    \/ CheckTimeout
    \/ ReadEmpty
    \/ ReadFail
    \/ Retry
    \/ ReadBatch
    \/ print_summary

NextLive ==
    \/ LoopStep
    \/ DispatchClean
    \/ Produce
    \/ Tick

\* WF_vars(DispatchClean) written out: DispatchClean is enabled exactly when
\* the for loop has a message left, and every step of it takes one
DispatchFair == []<>(~(pc = "dispatch" /\ messages # <<>>))

SpecLive == Init /\ [][NextLive]_vars /\ WF_vars(LoopStep) /\ DispatchFair

(* SpecLongLive: the run over the long stream, its steps always taken in   *)
(* the end                                                                 *)

SpecLongLive == InitLong /\ [][NextLong]_vars /\ WF_vars(LoopStep) /\ DispatchFair

(* SpecEvict: runs over the long stream while the clock moves by two      *)
(* thirds of the baseline window at a time, the consumer killed at the     *)
(* end of the stream and started again                                     *)

\* two thirds of the baseline window pass; the store drops what has expired
LongTick ==
    /\ hist.long_ticks < MaxLongTicks
    /\ now' = now + 2 * (BASELINE_WINDOW \div 3)
    /\ redis' = ExpireKeys(redis, now + 2 * (BASELINE_WINDOW \div 3))
    /\ hist' = [hist EXCEPT !.long_ticks = @ + 1]
    /\ UNCHANGED <<det, pc, last_id, messages, timeout_seconds, start_time, out>>

\* the process is killed while it waits for records after the last one of the
\* stream, and a new process runs main(): an empty window, the cursor at '0'
RunAgain ==
    /\ pc = "read"
    /\ last_id = Len(redis.stream)
    /\ hist.restarts < MaxRestarts
    /\ pc' = "start"
    /\ det' = NewDetector(now)
    /\ last_id' = 0
    /\ messages' = <<>>
    /\ out' = NoOutput
    /\ hist' = [hist EXCEPT !.restarts = @ + 1, !.run_ids = <<>>, !.last = NoLast,
                            !.signals = 0, !.faults = 0, !.sources = {}]
    /\ UNCHANGED <<redis, timeout_seconds, start_time, now>>

InitEvict == InitWith(LongStream, {NoTimeout}, "start")

NextEvict ==
    \/ ConnectOK
    \/ CheckTimeout
    \/ ReadEmpty
    \/ ReadBatch
    \/ DispatchClean
    \/ RunAgain
    \/ LongTick

SpecEvict == InitEvict /\ [][NextEvict]_vars

(* SpecBaseline: update_baseline called on its own, first at a slow pace   *)
(* while the clock runs past the window, then in a burst                   *)

InitBaseline == InitWith(<<>>, {NoTimeout}, "baseline")

\* self.update_baseline(record)
BaselineTick ==
    /\ pc = "baseline"
    /\ Len(hist.ticks) < MaxSamples
    /\ det' = update_baseline(det, now)
    /\ hist' = [hist EXCEPT !.ticks = Append(@, now)]
    /\ UNCHANGED <<redis, pc, last_id, messages, timeout_seconds, start_time, now, out>>

\* half a window passes between two calls
BaselineClock ==
    /\ pc = "baseline"
    /\ Len(hist.ticks) < MaxSlowTicks
    /\ 2 * (now + BASELINE_WINDOW) <= 2 * MaxWindows * BASELINE_WINDOW
    /\ now' = now + BASELINE_WINDOW \div 2
    /\ UNCHANGED <<redis, det, pc, last_id, messages, timeout_seconds, start_time, out, hist>>

NextBaseline ==
    \/ BaselineTick
    \/ BaselineClock

SpecBaseline == InitBaseline /\ [][NextBaseline]_vars

(* SpecTwo: two consumer processes on one input stream and one store.     *)
(* Each has its own DDoSDetector object and its own cursor, so in this     *)
(* specification det, pc, last_id and messages hold one value per          *)
(* instance.  The processes take turns record by record.                   *)

Instances == {1, 2}

TwoStreams ==
    UNION {[1..n -> {SynRec, QuietRec, NoIpRec}] : n \in 1..MaxTwoLen}

InitTwo ==
    /\ \E stream \in TwoStreams : redis = [EmptyRedis EXCEPT !.stream = stream]
    /\ det = [i \in Instances |-> NewDetector(0)]
    /\ pc = [i \in Instances |-> "read"]
    /\ last_id = [i \in Instances |-> 0]
    /\ messages = [i \in Instances |-> <<>>]
    /\ timeout_seconds = NoTimeout
    /\ start_time = 0
    /\ now = 0
    /\ out = NoOutput
    /\ hist = [NoHist EXCEPT !.by = [i \in Instances |-> <<>>]]

\* xread of instance i returns the entries after its own cursor
ReadBatchOf(i) ==
    /\ pc[i] = "read"
    /\ Len(redis.stream) > last_id[i]
    /\ messages' = [messages EXCEPT ![i] = XRead(redis.stream, last_id[i])]
    /\ pc' = [pc EXCEPT ![i] = "dispatch"]
    /\ UNCHANGED <<redis, det, last_id, timeout_seconds, start_time, now, out, hist>>

\* mutant: the instances share one cursor, and a record processed by one
\* is not delivered to the other
DispatchOf_SharedCursor(i) ==
    /\ pc[i] = "dispatch"
    /\ messages[i] # <<>>
    /\ LET id == Head(messages[i])
           w == process_record(Work(redis, det[i], now, 0, "none"), redis.stream[id])
           sent == SubSeq(w.r.alerts, Len(redis.alerts) + 1, Len(w.r.alerts))
           left == [j \in Instances |-> SelectSeq(messages[j], LAMBDA m : m > id)]
       IN  /\ redis' = w.r
           /\ det' = [det EXCEPT ![i] = w.d]
           /\ last_id' = [j \in Instances |-> id]
           /\ hist' = [hist EXCEPT !.by[i] =
                          Append(@, [obs |-> w.ip_data,
                                     types |-> [k \in 1..Len(sent) |-> sent[k].alert_type]])]
           /\ messages' = left
           /\ pc' = [j \in Instances |-> IF left[j] = <<>> THEN "read" ELSE "dispatch"]
    /\ UNCHANGED <<timeout_seconds, start_time, now, out>>

\* instance i passes the next message of its batch to process_record
DispatchOf(i) ==
    /\ pc[i] = "dispatch"
    /\ messages[i] # <<>>
    /\ LET id == Head(messages[i])
           w == process_record(Work(redis, det[i], now, 0, "none"), redis.stream[id])
           sent == SubSeq(w.r.alerts, Len(redis.alerts) + 1, Len(w.r.alerts))
       IN  /\ redis' = w.r
           /\ det' = [det EXCEPT ![i] = w.d]
           /\ last_id' = [last_id EXCEPT ![i] = Advance(last_id[i], id)]
           /\ hist' = [hist EXCEPT !.by[i] =
                          Append(@, [obs |-> w.ip_data,
                                     types |-> [k \in 1..Len(sent) |-> sent[k].alert_type]])]
    /\ messages' = [messages EXCEPT ![i] = Tail(@)]
    /\ pc' = [pc EXCEPT ![i] = IF Tail(messages[i]) = <<>> THEN "read" ELSE "dispatch"]
    /\ UNCHANGED <<timeout_seconds, start_time, now, out>>

ReadBatchTwo == \E i \in Instances : ReadBatchOf(i)

DispatchTwo == \E i \in Instances : DispatchOf(i)

NextTwo ==
    \/ ReadBatchTwo
    \/ DispatchTwo

SpecTwo == InitTwo /\ [][NextTwo]_vars

(* SpecObserve: update_ip_counters called on records of every kind of      *)
(* source while the clock runs, without faults                             *)

ObservePortVals == {IntVal(22), IntVal(80), DigitStr(80), Absent}

ObserveRecords ==
    {Rec(ip, "TCP", port, IntVal(40), "SYN", NoStr, NoneVal, 0, 0, TRUE) :
        ip \in ValidIPs \cup {"", "nan"}, port \in ObservePortVals}

InitObserve == InitWith(<<>>, {NoTimeout}, "observe")

\* the observe calls for ip since its counter key last came into being
EpochObs(h, r, ip) ==
    [h EXCEPT !.epoch_obs[ip] = IF r.count[ip].v = 0 THEN 1 ELSE @ + 1]

\* a dest_port as the value Python compares: numeric text is its number,
\* 80 and 80.0 are one value, and a missing field is the empty string
PortValue(x) ==
    IF x.t \in {"int", "digits", "float"} THEN [t |-> "number", v |-> x.v]
    ELSE IF x.t = "absent" THEN EmptyStr
    ELSE x

\* the dest_port values of the observe calls for ip since its ports key
\* last came into being
EpochPorts(h, r, ip, port) ==
    [h EXCEPT !.epoch_ports[ip] =
        IF r.ports[ip].v = <<>> THEN {PortValue(port)} ELSE @ \cup {PortValue(port)}]

\* ip_data = self.update_ip_counters(record), for a record of the given
\* set, while the source's counter is below the limit; ports: whether the
\* history of the port values is kept
ObserveFrom(at, records, limit, ports) ==
    /\ pc = at
    /\ \E rec \in records :
         LET w == update_ip_counters(Work(redis, det, now, 0, "none"), rec)
             ip == rec.source_ip
             h == EpochObs(hist, redis, ip)
         IN  /\ ValidSource(ip) => redis.count[ip].v < limit
             /\ redis' = w.r
             /\ hist' = [(IF ~ValidSource(ip) THEN hist
                          ELSE IF ports THEN EpochPorts(h, redis, ip, rec.dest_port)
                          ELSE h)
                            EXCEPT !.last = [NoLast EXCEPT !.obs = w.ip_data]]
    /\ UNCHANGED <<det, pc, last_id, messages, timeout_seconds, start_time, now, out>>

Observe == ObserveFrom("observe", ObserveRecords, MaxCount, FALSE)

NextObserve ==
    \/ Observe
    \/ Tick

SpecObserve == InitObserve /\ [][NextObserve]_vars

(* SpecPorts: update_ip_counters called on records of one source and of no *)
(* source, with every kind of dest_port, while the clock runs              *)

PortRecords ==
    {Rec(ip, "TCP", port, IntVal(40), "SYN", NoStr, NoneVal, 0, 0, TRUE) :
        ip \in {"10.0.0.5", ""},
        port \in {IntVal(22), IntVal(80), DigitStr(80), FloatVal(80), Absent, NoneVal}}

InitPorts == InitWith(<<>>, {NoTimeout}, "ports")

ObservePort == ObserveFrom("ports", PortRecords, MaxObsPorts, TRUE)

NextPorts ==
    \/ ObservePort
    \/ Tick

SpecPorts == InitPorts /\ [][NextPorts]_vars

(* SpecFirstSeen: update_ip_counters called on records of one source over *)
(* hours: the clock also moves in steps of half the first_seen TTL         *)

FirstSeenRecords ==
    {Rec(ip, "TCP", IntVal(22), IntVal(40), "SYN", NoStr, NoneVal, 0, 0, TRUE) :
        ip \in {"10.0.0.5", ""}}

InitFirstSeen == InitWith(<<>>, {NoTimeout}, "first_seen")

ObserveLater == ObserveFrom("first_seen", FirstSeenRecords, MaxCount, FALSE)

\* half an hour passes; the store drops the keys whose TTL has run out
HalfHour ==
    /\ 2 * (now + FIRST_SEEN_TTL) <= (MaxHalfHours + 2) * FIRST_SEEN_TTL
    /\ now' = now + FIRST_SEEN_TTL \div 2
    /\ redis' = ExpireKeys(redis, now + FIRST_SEEN_TTL \div 2)
    /\ UNCHANGED <<det, pc, last_id, messages, timeout_seconds, start_time, out, hist>>

NextFirstSeen ==
    \/ ObserveLater
    \/ Tick
    \/ HalfHour

SpecFirstSeen == InitFirstSeen /\ [][NextFirstSeen]_vars

(* SpecScenario: a run over six SYN records of one source that go to at    *)
(* least four distinct ports, from an empty store, while the clock runs    *)

ScenarioLen == 6
ScenarioMinPorts == 4

\* the port choices up to renaming of the ports: the first record goes to
\* port 1, each later one to a port already used or to the next new one
PortChoices ==
    {c \in [1..ScenarioLen -> 1..ScenarioLen] :
        /\ c[1] = 1
        /\ \A i \in 2..ScenarioLen : \E j \in 1..(i - 1) : c[i] <= c[j] + 1
        /\ \E i \in 1..ScenarioLen : c[i] >= ScenarioMinPorts}

ScenarioRec(port) ==
    Rec("10.0.0.5", "TCP", IntVal(20 + port), IntVal(40), "SYN", NoStr, NoneVal, 3, 0, TRUE)

ScenarioStreams == {[i \in 1..ScenarioLen |-> ScenarioRec(c[i])] : c \in PortChoices}

InitScenario == \E stream \in ScenarioStreams : InitWith(stream, {NoTimeout}, "start")

NextScenario ==
    \/ ConnectOK
    \/ CheckTimeout
    \/ ReadEmpty
    \/ ReadBatch
    \/ DispatchClean
    \/ Tick

SpecScenario == InitScenario /\ [][NextScenario]_vars

(* SpecRepeat: a run over eight records of one source, to one port, to     *)
(* four ports or each to a port of its own, while the clock moves          *)

RepeatPorts ==
    {[i \in 1..RepeatLen |-> 1],
     [i \in 1..RepeatLen |-> IF i <= PORT_SCAN_THRESHOLD THEN i ELSE PORT_SCAN_THRESHOLD + 1],
     [i \in 1..RepeatLen |-> i]}

RepeatStreams == {[i \in 1..RepeatLen |-> ScenarioRec(c[i])] : c \in RepeatPorts}

InitRepeat == \E stream \in RepeatStreams : InitWith(stream, {NoTimeout}, "start")

NextRepeat ==
    \/ ConnectOK
    \/ CheckTimeout
    \/ ReadEmpty
    \/ ReadBatch
    \/ DispatchClean
    \/ Tick

SpecRepeat == InitRepeat /\ [][NextRepeat]_vars

(* SpecLatency: update_ip_counters called on records of one source, each  *)
(* to a port of its own, with time passing between its Redis commands:     *)
(* the store puts the time of each command on its own clock reading, and   *)
(* the GET and SETEX of the ports key are served after the EXPIRE of the   *)
(* counter.  pc "count": before a call; pc "ports": the call has made its  *)
(* INCR and EXPIRE                                                         *)

InitLatency ==
    InitWith([i \in 1..LatencyLen |-> ScenarioRec(i)], {NoTimeout}, "count")

\* current_count = incr(count_key); expire(count_key, 60)
CountPart ==
    /\ pc = "count"
    /\ last_id < Len(redis.stream)
    /\ LET ip == redis.stream[last_id + 1].source_ip
           w == ObserveCount(Work(redis, det, now, 0, "none"), ip)
       IN  /\ redis' = w.r
           /\ hist' = [hist EXCEPT !.last = [NoLast EXCEPT !.id = last_id + 1,
                                                          !.obs.ip = ip,
                                                          !.obs.count = IncrResult(w, ip)]]
    /\ pc' = "ports"
    /\ UNCHANGED <<det, last_id, messages, timeout_seconds, start_time, now, out>>

\* the rest of the call: the ports key, first_seen, the value returned
PortsPart ==
    /\ pc = "ports"
    /\ LET record == redis.stream[hist.last.id]
           ip == record.source_ip
           dest_port == CoerceDigits(GetOrEmpty(record.dest_port))
           w2 == ObservePorts(Work(redis, det, now, 0, "none"), ip, dest_port)
           w3 == ObserveFirstSeen(w2, ip)
       IN  /\ redis' = w3.r
           /\ hist' = [hist EXCEPT !.last.obs =
                          [some |-> TRUE, ip |-> ip, count |-> hist.last.obs.count,
                           ports |-> w2.ip_data.ports,
                           is_new_ip |-> ip \notin det.ip_history]]
    /\ last_id' = hist.last.id
    /\ pc' = "count"
    /\ UNCHANGED <<det, messages, timeout_seconds, start_time, now, out>>

\* a second passes inside a call, at most once a minute, or the rest of the
\* minute passes between two calls; the store drops what has expired
LatencyClock ==
    /\ \E d \in {1, COUNT_TTL - 1} :
         /\ d = 1 => (pc = "ports" /\ now % COUNT_TTL = 0)
         /\ d > 1 => (pc = "count" /\ now % COUNT_TTL = 1)
         /\ now + d <= MaxLatencyTime
         /\ now' = now + d
         /\ redis' = ExpireKeys(redis, now + d)
    /\ UNCHANGED <<det, pc, last_id, messages, timeout_seconds, start_time, out, hist>>

NextLatency ==
    \/ CountPart
    \/ PortsPart
    \/ LatencyClock

SpecLatency == InitLatency /\ [][NextLatency]_vars

(* SpecRules: the rule layers called on their own, each on every input of  *)
(* a bounded set: what update_ip_counters can return, and the records      *)
(* consume_stream can build                                                *)

PortList(k) == [i \in 1..k |-> IntVal(20 + i)]

\* what update_ip_counters returns: None, or a count of at least 1 with at
\* least one port
Observations ==
    {NoObs} \cup
    {[some |-> TRUE, ip |-> ip, count |-> c, ports |-> PortList(k), is_new_ip |-> b] :
        ip \in ValidIPs, c \in 1..MaxObsCount, k \in 1..MaxObsPorts, b \in BOOLEAN}

InitRules == InitWith(<<>>, {NoTimeout}, "rules")

\* alerts.extend(self.detect_layer1_attacks(ip_data, record))
Layer1Eval ==
    /\ pc = "rules"
    /\ \E o \in Observations :
         /\ redis' = [redis EXCEPT !.stream = <<[SynRec EXCEPT !.source_ip = o.ip]>>]
         /\ hist' = [hist EXCEPT !.last = [NoLast EXCEPT !.phase = "layer1", !.obs = o,
                                                         !.cands = detect_layer1_attacks(o)]]
    /\ pc' = "evaluated"
    /\ UNCHANGED <<det, last_id, messages, timeout_seconds, start_time, now, out>>

\* the field values extract_field can hand to Layer 3
SizeVals ==
    {Absent, NoneVal, OtherStr(1), DigitStr(40), DigitStr(2001), BoolVal(TRUE), FloatVal(40),
     IntVal(0), IntVal(40), IntVal(99), IntVal(100), IntVal(2000), IntVal(2001)}

PortVals ==
    {Absent, NoneVal, OtherStr(1), DigitStr(80), DigitStr(22), BoolVal(TRUE), FloatVal(80),
     IntVal(22), IntVal(80), IntVal(443), IntVal(8080)}

Layer3Records ==
    {Rec("10.0.0.5", proto, port, size, flags, method, resp, 3, 0, TRUE) :
        proto \in {"TCP", "UDP", "ICMP"}, port \in PortVals, size \in SizeVals,
        flags \in {"SYN", "ACK", NoStr}, method \in {"GET", "POST", "PUT", NoStr},
        resp \in {Absent, NoneVal, IntVal(5)}}

\* alerts.extend(self.detect_layer3_patterns(record))
Layer3Eval ==
    /\ pc = "rules"
    /\ \E record \in Layer3Records :
         /\ redis' = [redis EXCEPT !.stream = <<record>>]
         /\ hist' = [hist EXCEPT !.last = [NoLast EXCEPT !.phase = "layer3", !.id = 1,
                                              !.cands = detect_layer3_patterns(record)]]
    /\ pc' = "evaluated"
    /\ UNCHANGED <<det, last_id, messages, timeout_seconds, start_time, now, out>>

MaxHour == 2

Layer4Records ==
    {[Rec(ip, proto, IntVal(80), IntVal(40), "SYN", "GET", NoneVal, hour, minute, tsok)
        EXCEPT !.is_attack = attack] :
        ip \in {"10.0.0.5", ""}, proto \in {"TCP", "UDP"}, hour \in 0..MaxHour,
        minute \in 0..59, tsok \in BOOLEAN, attack \in BOOLEAN}

\* alerts.extend(self.correlate_with_known_attacks(record))
Layer4Eval ==
    /\ pc = "rules"
    /\ \E record \in Layer4Records :
         /\ redis' = [redis EXCEPT !.stream = <<record>>]
         /\ hist' = [hist EXCEPT !.last = [NoLast EXCEPT !.phase = "layer4", !.id = 1,
                                              !.cands = correlate_with_known_attacks(record)]]
    /\ pc' = "evaluated"
    /\ UNCHANGED <<det, last_id, messages, timeout_seconds, start_time, now, out>>

\* for alert_data in alerts: self.generate_alert(alert_data, record)
EmitEval ==
    /\ pc = "evaluated"
    /\ hist.last.cands # <<>>
    /\ LET w == EmitAll(Work(redis, det, now, 0, "none"), hist.last.cands, redis.stream[1])
       IN  /\ redis' = w.r
           /\ det' = w.d
    /\ pc' = "emitted"
    /\ UNCHANGED <<last_id, messages, timeout_seconds, start_time, now, out, hist>>

NextRules ==
    \/ Layer1Eval
    \/ Layer3Eval
    \/ Layer4Eval
    \/ EmitEval

SpecRules == InitRules /\ [][NextRules]_vars

----------------------------------------------------------------------------
(* Properties *)

\* a step in which a message was passed to process_record
DispatchStep == Len(hist'.run_ids) = Len(hist.run_ids) + 1

\* the deadline of a run with a positive timeout has passed
DeadlinePassed == timeout_seconds > 0 /\ now - start_time > timeout_seconds

\* C1: after a crash and a restart no record that the cursor had already
\* advanced past is passed to process_record again: every record dispatched
\* lies after the highest cursor position acknowledged so far.
C1_NoReprocessingAfterRestart ==
    [][DispatchStep => hist'.last.id > hist.acked]_vars

\* C2: when a Redis call raises inside process_record, the exception stays
\* inside the call: the cursor moves to the faulting record, the loop goes
\* on with the rest of the batch (or with the next read when the batch is
\* over), every message still in the batch lies after the cursor, and a
\* record is never dispatched twice in the run.
C2_FaultingRecordIsSkipped ==
    [][DispatchStep =>
          (/\ ~InList(hist'.last.id, hist.run_ids)
           /\ (hist'.last.halt = "raise" =>
                 (/\ last_id' = hist'.last.id
                  /\ messages' = Tail(messages)
                  /\ pc' = (IF Tail(messages) = <<>> THEN "loop" ELSE "dispatch")
                  /\ \A i \in 1..Len(messages') : messages'[i] > last_id')))]_vars

\* C2 witness: the first record of a batch of two has met a fault and the
\* loop stands before the second one, the cursor on the faulting record
C2_Witness ==
    /\ hist.last.halt = "raise"
    /\ pc = "dispatch"
    /\ messages # <<>>
    /\ last_id = hist.last.id

\* C3 (as claimed): whatever the step at which a Redis call raises while a
\* record is processed, the alerts stream holds no alert for that record.
C3_NoAlertOnAnyFault ==
    [][(DispatchStep /\ hist'.last.halt = "raise") => (redis'.alerts = redis.alerts)]_vars

\* C3 (amended): when a Redis call raises while the per-source state is
\* updated or the rules are evaluated, the alerts stream and the alert
\* counters are left as they were: no alert of that record is published.
\* A fault met while emitting or while updating the metrics leaves at most
\* the record's candidates, published before it, in the stream.
C3_NoAlertOnEarlyFault ==
    [][(DispatchStep /\ hist'.last.halt = "raise") =>
          (IF hist'.last.phase \in {"observe", "rules"}
           THEN /\ redis'.alerts = redis.alerts
                /\ redis'.alerts_total = redis.alerts_total
                /\ det'.alerts_generated = det.alerts_generated
           ELSE /\ hist'.last.phase \in {"emit", "metrics"}
                /\ SubSeq(redis'.alerts, 1, Len(redis.alerts)) = redis.alerts)]_vars

\* C3 witness: the fault was met in the rule layers (the SETEX of Layer 2,
\* with the baseline window at its minimum) by a record that has candidates
C3_Witness ==
    /\ hist.last.halt = "raise"
    /\ hist.last.phase = "rules"
    /\ detect_layer3_patterns(redis.stream[hist.last.id]) # <<>>

\* C4: in one run the records are dispatched in stream order, each at most
\* once and with no gap: the record dispatched is the one right after the
\* cursor, the cursor stands on it when process_record has returned, the
\* cursor never moves backwards, and a read returns the records right
\* after the cursor.
C4_InOrderExactlyOnce ==
    [][/\ last_id' >= last_id
       /\ (DispatchStep =>
             (/\ hist'.last.id = last_id + 1
              /\ hist'.run_ids = [i \in 1..hist'.last.id |-> i]
              /\ (hist'.last.halt \in {"none", "raise"} => last_id' = hist'.last.id)))
       /\ ((pc = "read" /\ pc' = "dispatch") =>
             (/\ messages' # <<>>
              /\ \A i \in 1..Len(messages') : messages'[i] = last_id + i))]_vars

\* C4 witness: two records have been dispatched, the second from a later
\* read than the first
C4_Witness ==
    /\ hist.run_ids = <<1, 2>>
    /\ last_id = 2
    /\ pc = "loop"
    /\ det.processed_records = 2

\* C5: a read that returns nothing and a read that raises leave the cursor,
\* the object's counters and the whole store as they were, and so does the
\* pause; the loop then stands at its top (after the pause in the failure
\* case), from where the next read is issued.
C5_ReadLeavesStateUnchanged ==
    [][((pc = "read" /\ pc' \notin {"read", "dispatch"} /\ hist'.signals = hist.signals)
        \/ (pc = "retry" /\ pc' # "retry" /\ hist'.signals = hist.signals))
       => (/\ last_id' = last_id
           /\ det' = det
           /\ redis' = redis
           /\ messages' = messages
           /\ pc' \in (IF pc = "retry" THEN {"loop"} ELSE {"loop", "retry"}))]_vars

\* C5 witness: a read has failed in a run that has already processed records
C5_Witness ==
    /\ pc = "retry"
    /\ last_id > 0
    /\ det.processed_records > 0
    /\ \E ip \in ValidIPs : redis.count[ip].v > 0

\* C6: once the loop is entered it is left only into Stopped, and only in a
\* step that delivers a stop signal or finds the deadline elapsed.
C6_StopOnlyOnRequest ==
    [][(pc \in {"loop", "read", "retry", "dispatch"}
        /\ pc' \notin {"loop", "read", "retry", "dispatch"})
       => (/\ pc' = "stopped"
           /\ (\/ hist'.signals = hist.signals + 1
               \/ (timeout_seconds # NoTimeout /\ now - start_time > timeout_seconds)))]_vars

\* C6 witness: the run has met a store fault in a record, has gone on, and
\* is stopped by its deadline
C6_Witness ==
    /\ pc = "stopped"
    /\ out.stop_msg = "timeout"
    /\ hist.last.halt = "raise"
    /\ hist.signals = 0

\* C7: with a deadline configured, a run whose deadline has elapsed reaches
\* the end with its summary printed once.
C7_DeadlineStopsTheLoop ==
    (timeout_seconds # NoTimeout /\ now - start_time > timeout_seconds /\ Running)
        ~> (pc = "exited" /\ out.summaries = 1)

\* C7, for the deadlines the code honours: a positive one
C7_PositiveDeadlineStopsTheLoop ==
    (DeadlinePassed /\ Running) ~> (pc = "exited" /\ out.summaries = 1)

\* C8: once a stop request is pending (the deadline has elapsed, or a stop
\* signal has been delivered to the run), no further record is dispatched.
C8_NoDispatchOnceStopPending ==
    [][(DeadlinePassed \/ hist.signals > 0) => ~DispatchStep]_vars

\* C9 (as claimed): the process ends with its summary printed, and not with
\* status 0 when the loop was never entered.
C9_SummaryOnEveryExit ==
    pc = "exited" => (out.summaries = 1 /\ (out.stop_msg = "none" => out.exit_code # 0))

\* C9 (amended): a process that ends after its loop was stopped (deadline
\* or stop signal) has printed the summary exactly once; a process that ends
\* without entering the loop (connection failure at startup) has printed no
\* summary and ends with a non-zero status.
C9_SummaryOnLoopExit ==
    pc = "exited" =>
        (IF out.stop_msg \in {"timeout", "user"}
         THEN out.summaries = 1
         ELSE out.summaries = 0 /\ out.exit_code \notin {0, NoExit})

\* C9 witness: the run ended on its deadline with the summary printed
C9_Witness ==
    /\ pc = "exited"
    /\ out.stop_msg = "timeout"
    /\ out.summaries = 1
    /\ det.processed_records > 0

\* C10: an observe call on a record with a valid source adds exactly one to
\* the source's counter and returns the counter's new value, which is the
\* number of observe calls for the source since its counter key came into
\* being: 1, 2, 3, ... within one TTL epoch.
C10_OneIncrementPerObserve ==
    [][\A ip \in ValidIPs :
          (hist'.epoch_obs[ip] # hist.epoch_obs[ip]
           \/ (redis'.count[ip].v # redis.count[ip].v /\ now' = now))
          => (/\ redis'.count[ip].v = redis.count[ip].v + 1
              /\ hist'.last.obs.some
              /\ hist'.last.obs.ip = ip
              /\ hist'.last.obs.count = redis'.count[ip].v
              /\ hist'.last.obs.count = hist'.epoch_obs[ip])]_vars

\* the alerts the step has appended to the alerts stream
Published == SubSeq(redis'.alerts, Len(redis.alerts) + 1, Len(redis'.alerts))

\* the record the step has passed to process_record
Dispatching == redis.stream[hist'.last.id]

\* C11: a record whose source_ip is empty or 'nan' yields no observation; no
\* per-source key and no recency entry is read or written for it (the only
\* Redis calls of the record are the two baseline SETEX of Layer 2, two per
\* alert and the SET of the processed count), and no alert of Layer 1 or
\* Layer 2 is published for it.
C11_InvalidSourceIsSkipped ==
    [][(DispatchStep /\ Dispatching.source_ip \in {"", "nan"}) =>
          (/\ ~hist'.last.obs.some
           /\ redis'.count = redis.count
           /\ redis'.ports = redis.ports
           /\ redis'.first_seen = redis.first_seen
           /\ det'.ip_history = det.ip_history
           /\ \A i \in 1..Len(Published) :
                 Published[i].alert_type \notin
                    {"HIGH_REQUEST_RATE", "PORT_SCAN", "NEW_IP_ATTACK", "ANOMALOUS_TRAFFIC"}
           /\ (hist'.last.fk = "none" =>
                 hist'.last.calls =
                    (IF Len(det'.baseline_data) >= 10 THEN 2 ELSE 0)
                    + 2 * Len(Published) + 1))]_vars

\* C11 witness: a 'nan' record has gone through the pipeline with the
\* baseline window at its minimum, and alerts of the other layers are out
C11_Witness ==
    /\ hist.last.id = 10
    /\ redis.stream[10].source_ip = "nan"
    /\ hist.last.halt = "none"
    /\ hist.last.published = 3
    /\ Len(det.baseline_data) = 10

\* C12: within one run is_new_ip is true for the first observe call of a
\* source and false for every later one: the observation says "new" exactly
\* when update_ip_counters has not observed the source before in this run.
C12_NewOnlyOnFirstObserve ==
    [][(DispatchStep /\ hist'.last.obs.some) =>
          (hist'.last.obs.is_new_ip <=> hist'.last.obs.ip \notin hist.sources)]_vars

\* the candidates of the layer evaluated last include one of this type
Has(type) == \E i \in 1..Len(hist.last.cands) : hist.last.cands[i].type = type

\* the candidates of the layer evaluated last come in the order of the list
InOrderOf(types) ==
    \A i, j \in 1..Len(hist.last.cands) :
        i < j => \E m, n \in 1..Len(types) :
                    /\ m < n
                    /\ hist.last.cands[i].type = types[m]
                    /\ hist.last.cands[j].type = types[n]

\* C13: Layer 1 emits exactly the rules whose condition holds, each with
\* the severity and confidence of the table and for the observed source, in
\* the order HIGH_REQUEST_RATE (count > 5), PORT_SCAN (more than 3 ports,
\* whatever the count), NEW_IP_ATTACK (new source with count > 2); without
\* an observation it emits nothing.
C13_Layer1Table ==
    hist.last.phase = "layer1" =>
        LET o == hist.last.obs
            c == hist.last.cands
        IN  /\ Has("HIGH_REQUEST_RATE") <=> (o.some /\ o.count > 5)
            /\ Has("PORT_SCAN") <=> (o.some /\ Len(o.ports) > 3)
            /\ Has("NEW_IP_ATTACK") <=> (o.some /\ o.is_new_ip /\ o.count > 2)
            /\ InOrderOf(<<"HIGH_REQUEST_RATE", "PORT_SCAN", "NEW_IP_ATTACK">>)
            /\ \A i \in 1..Len(c) :
                  /\ c[i].source_ip = o.ip
                  /\ <<c[i].type, c[i].severity, c[i].confidence>> \in
                        {<<"HIGH_REQUEST_RATE", "HIGH", 90>>,
                         <<"PORT_SCAN", "MEDIUM", 80>>,
                         <<"NEW_IP_ATTACK", "HIGH", 85>>}

\* C13 witness: a known source below the rate threshold with four ports:
\* PORT_SCAN alone
C13_Witness ==
    /\ hist.last.phase = "layer1"
    /\ hist.last.obs.count = 5
    /\ ~hist.last.obs.is_new_ip
    /\ Len(hist.last.obs.ports) = 4
    /\ Len(hist.last.cands) = 1
    /\ Has("PORT_SCAN")

\* the sum of the first k samples of the baseline window
RECURSIVE RateSum(_, _)
RateSum(samples, k) ==
    IF k = 0 THEN 0 ELSE samples[k].requests_per_minute + RateSum(samples, k - 1)

\* n^2 (n - 1) times the sample variance of the window
RECURSIVE Spread(_, _)
Spread(samples, k) ==
    IF k = 0 THEN 0
    ELSE LET dev == Len(samples) * samples[k].requests_per_minute
                    - RateSum(samples, Len(samples))
         IN  dev * dev + Spread(samples, k - 1)

\* count > mean + 2 * standard deviation of the window, in integers:
\* n * count - total > 2 * sqrt(spread / (n - 1))
ExceedsTwoSigma(samples, count) ==
    LET n == Len(samples)
        lhs == n * count - RateSum(samples, n)
    IN  lhs > 0 /\ lhs * lhs * (n - 1) > 4 * Spread(samples, n)

\* the condition under which Layer 2 is to emit ANOMALOUS_TRAFFIC
Layer2Due(samples, obs) ==
    /\ Len(samples) >= 10
    /\ obs.some
    /\ Spread(samples, Len(samples)) > 0
    /\ ExceedsTwoSigma(samples, obs.count)

\* C14: for a record processed without a fault the alerts published are the
\* candidates of Layer 1, Layer 2, Layer 3 and Layer 4, in this order, each
\* layer's candidates whole and unchanged whatever the other layers found;
\* Layer 2 has run (its baseline keys are written) once the window is full
\* enough.
C14_AllLayersConcatenated ==
    [][(DispatchStep /\ hist'.last.fk = "none") =>
          LET record == Dispatching
              obs == hist'.last.obs
              layer2 == IF Layer2Due(det'.baseline_data, obs)
                        THEN <<Candidate("ANOMALOUS_TRAFFIC", "MEDIUM", obs.ip, 70)>>
                        ELSE <<>>
              all == detect_layer1_attacks(obs) \o layer2
                     \o detect_layer3_patterns(record)
                     \o correlate_with_known_attacks(record)
          IN  /\ Published = [i \in 1..Len(all) |-> Alert(all[i], record)]
              /\ (Len(det'.baseline_data) >= 10 =>
                    (/\ redis'.baseline_avg.set
                     /\ redis'.baseline_avg.exp = now + 300))]_vars

\* C14 witness: one record has yielded alerts of Layers 1, 3 and 4 at once
C14_Witness ==
    /\ hist.last.fk = "none"
    /\ hist.last.published = 3
    /\ Len(redis.alerts) >= 3
    /\ redis.alerts[Len(redis.alerts) - 2].alert_type = "HIGH_REQUEST_RATE"
    /\ redis.alerts[Len(redis.alerts) - 1].alert_type = "SYN_FLOOD_SUSPECT"
    /\ redis.alerts[Len(redis.alerts)].alert_type = "KNOWN_SYN_FLOOD"

\* the ANOMALOUS_TRAFFIC alerts among those the step has published
Anomalous == SelectSeq(Published, LAMBDA a : a.alert_type = "ANOMALOUS_TRAFFIC")

C16_Layer2FiresFromTick10 ==
    [][(DispatchStep /\ hist'.last.fk = "none") =>
          (/\ (Len(det'.baseline_data) < 10 => Anomalous = <<>>)
           /\ ((/\ Len(det'.baseline_data) >= 10
                 /\ hist'.last.obs.some
                 /\ ExceedsTwoSigma(det'.baseline_data, hist'.last.obs.count))
                => Anomalous # <<>>))]_vars

\* the alerts of a type published for a source so far
AlertsOf(type, ip) ==
    SelectSeq(redis.alerts, LAMBDA a : a.alert_type = type /\ a.source_ip = ip)

\* the six records of the scenario have been processed, the last one less
\* than a TTL (60 s) after the first
ScenarioDone ==
    /\ Len(hist.run_ids) = 6
    /\ Len(det.baseline_data) = 6
    /\ det.baseline_data[6].timestamp - det.baseline_data[1].timestamp < 60

\* C17: when source 10.0.0.5 has sent six TCP SYN records of packet_size 40
\* without response_time to at least four distinct ports, all within one
\* TTL epoch and from an empty store, the alerts stream holds
\* HIGH_REQUEST_RATE and PORT_SCAN for the source and exactly six
\* SYN_FLOOD_SUSPECT alerts.
C17_Scenario1 ==
    ScenarioDone =>
        (/\ AlertsOf("HIGH_REQUEST_RATE", "10.0.0.5") # <<>>
         /\ AlertsOf("PORT_SCAN", "10.0.0.5") # <<>>
         /\ Len(AlertsOf("SYN_FLOOD_SUSPECT", "10.0.0.5")) = 6)

\* C17 witness: the scenario is through, its fourth port first used by the
\* sixth record, half a minute after the first record
C17_Witness ==
    /\ ScenarioDone
    /\ det.baseline_data[6].timestamp = det.baseline_data[1].timestamp + 30
    /\ Len(redis.ports["10.0.0.5"].v) = 4
    /\ Len(AlertsOf("PORT_SCAN", "10.0.0.5")) = 1

\* C10 witness: a source is observed for the first time in its second
\* epoch, after its counter had reached 2 and expired
C10_Witness ==
    /\ hist.last.obs.some
    /\ hist.last.obs.count = 1
    /\ now >= COUNT_TTL
    /\ redis.count[hist.last.obs.ip].exp = now + COUNT_TTL

\* the record a rule layer was evaluated on
Evaluated == redis.stream[1]

\* a packet_size as the number the comparisons see: numeric text is
\* coerced, anything missing or not numeric counts as 0
SizeSeen(x) == IF x.t \in {"int", "float", "bool", "digits"} THEN x.v ELSE 0

\* C18: Layer 3 emits, in the order SYN_FLOOD_SUSPECT, HTTP_FLOOD_SUSPECT,
\* UDP_AMPLIFICATION_SUSPECT, exactly the checks that hold on the record:
\* TCP + SYN + no response time + size < 100; port in {80, 443, 8080} +
\* method GET or POST; UDP + size > 2000.  Numeric text counts as its
\* number, a missing or non-numeric size as 0, a missing or non-numeric
\* port matches nothing.
C18_Layer3Checks ==
    hist.last.phase = "layer3" =>
        LET r == Evaluated
            c == hist.last.cands
            size == SizeSeen(r.packet_size)
        IN  /\ Has("SYN_FLOOD_SUSPECT") <=>
                  (/\ r.protocol = "TCP" /\ r.flags = "SYN"
                   /\ r.response_time_ms.t \in {"none", "absent"}
                   /\ size < 100)
            /\ Has("HTTP_FLOOD_SUSPECT") <=>
                  (/\ r.dest_port.t \in {"int", "float", "digits"}
                   /\ r.dest_port.v \in {80, 443, 8080}
                   /\ r.http_method \in {"GET", "POST"})
            /\ Has("UDP_AMPLIFICATION_SUSPECT") <=> (r.protocol = "UDP" /\ size > 2000)
            /\ InOrderOf(<<"SYN_FLOOD_SUSPECT", "HTTP_FLOOD_SUSPECT",
                           "UDP_AMPLIFICATION_SUSPECT">>)
            /\ \A i \in 1..Len(c) :
                  /\ c[i].source_ip = r.source_ip
                  /\ <<c[i].type, c[i].severity, c[i].confidence>> \in
                        {<<"SYN_FLOOD_SUSPECT", "MEDIUM", 60>>,
                         <<"HTTP_FLOOD_SUSPECT", "MEDIUM", 50>>,
                         <<"UDP_AMPLIFICATION_SUSPECT", "HIGH", 80>>}

\* C18 witness: a TCP SYN record without packet_size whose port is the
\* text "80" has raised the SYN and the HTTP check together
C18_Witness ==
    /\ hist.last.phase = "layer3"
    /\ Evaluated.packet_size = Absent
    /\ Evaluated.dest_port = DigitStr(80)
    /\ Len(hist.last.cands) = 2
    /\ Has("SYN_FLOOD_SUSPECT")
    /\ Has("HTTP_FLOOD_SUSPECT")

\* the label of the window a minute of the day falls into
WindowLabel(minute) ==
    IF 15 <= minute /\ minute < 25 THEN "SYN_FLOOD"
    ELSE IF 40 <= minute /\ minute < 50 THEN "HTTP_FLOOD"
    ELSE IF 70 <= minute /\ minute < 80 THEN "UDP_FLOOD"
    ELSE IF 95 <= minute /\ minute < 105 THEN "AMPLIFICATION"
    ELSE "none"

\* C19: Layer 4 emits at most one alert: KNOWN_<LABEL> (HIGH, 0.95) of the
\* first window that holds hour * 60 + minute of the record's timestamp,
\* nothing when no window holds it, whatever the source, the protocol and
\* is_attack are; at minute 20 of the day it is KNOWN_SYN_FLOOD.
C19_Layer4Windows ==
    (hist.last.phase = "layer4" /\ Evaluated.ts.ok) =>
        LET r == Evaluated
            c == hist.last.cands
            label == WindowLabel(r.ts.hour * 60 + r.ts.minute)
        IN  /\ Len(c) <= 1
            /\ (label = "none" <=> c = <<>>)
            /\ (c # <<>> =>
                  c[1] = [type |-> "KNOWN_" \o label, severity |-> "HIGH",
                          source_ip |-> r.source_ip, confidence |-> 95])
            /\ ((r.ts.hour = 0 /\ r.ts.minute = 20) =>
                  (c # <<>> /\ c[1].type = "KNOWN_SYN_FLOOD"))

\* C19 witness: a record without source_ip, not labelled an attack, at
\* 01:35 (minute 95) has raised KNOWN_AMPLIFICATION
C19_Witness ==
    /\ hist.last.phase = "layer4"
    /\ Evaluated.source_ip = ""
    /\ ~Evaluated.is_attack
    /\ Evaluated.ts.hour = 1
    /\ Evaluated.ts.minute = 35
    /\ Len(hist.last.cands) = 1
    /\ Has("KNOWN_AMPLIFICATION")

\* C20: a record whose timestamp cannot be parsed, processed without a store
\* fault, yields no Layer-4 alert and no error: process_record returns, the
\* alerts published are exactly the candidates of Layers 1, 2 and 3, the
\* processed count goes up by one and the cursor moves to the record.
C20_MalformedTimestamp ==
    [][(DispatchStep /\ hist'.last.fk = "none" /\ ~Dispatching.ts.ok) =>
          LET record == Dispatching
              obs == hist'.last.obs
              layer2 == IF Layer2Due(det'.baseline_data, obs)
                        THEN <<Candidate("ANOMALOUS_TRAFFIC", "MEDIUM", obs.ip, 70)>>
                        ELSE <<>>
              kept == detect_layer1_attacks(obs) \o layer2 \o detect_layer3_patterns(record)
          IN  /\ hist'.last.halt = "none"
              /\ Published = [i \in 1..Len(kept) |-> Alert(kept[i], record)]
              /\ \A i \in 1..Len(Published) :
                    Published[i].alert_type \notin
                      {"KNOWN_SYN_FLOOD", "KNOWN_HTTP_FLOOD", "KNOWN_UDP_FLOOD",
                       "KNOWN_AMPLIFICATION"}
              /\ det'.processed_records = det.processed_records + 1
              /\ redis'.processed_records = det'.processed_records
              /\ last_id' = hist'.last.id]_vars

\* C20 witness: the seventh record of its source has an unparseable
\* timestamp; HIGH_REQUEST_RATE and SYN_FLOOD_SUSPECT are published for it
\* and the cursor stands on it
C20_Witness ==
    /\ hist.last.id = 7
    /\ ~redis.stream[7].ts.ok
    /\ hist.last.fk = "none"
    /\ hist.last.published = 2
    /\ redis.alerts[Len(redis.alerts) - 1].alert_type = "HIGH_REQUEST_RATE"
    /\ redis.alerts[Len(redis.alerts)].alert_type = "SYN_FLOOD_SUSPECT"
    /\ last_id = 7
    /\ det.processed_records = 7

\* C21: the global alert total equals the number of alerts in the alerts
\* stream after any sequence of records, store faults at emit time
\* included.
C21_TotalMatchesStream == redis.alerts_total = Len(redis.alerts)

FailedPublish(id) ==
    /\ hist.last.id = id
    /\ hist.last.fk = "raise"
    /\ hist.last.phase = "emit"
    /\ det.alerts_generated = redis.alerts_total

\* C23: when the XADD of a record's k-th alert raises, the step publishes
\* the k - 1 alerts before it and nothing more, moves the cursor to the
\* record and goes on with the rest of the batch; no record is passed to
\* process_record twice in a run, so the alert is not published later; and
\* the record after it is processed in the end.
C23_FailedPublishIsDropped ==
    /\ [][(DispatchStep /\ hist'.last.fk = "raise") =>
            LET record == Dispatching
                obs == hist'.last.obs
                clean == process_record(Work(redis, det, now, 0, "none"), record)
                first == clean.n - 2 * Len(clean.alerts)
                at == hist'.last.fa - first
            IN  (at >= 0 /\ at < 2 * Len(clean.alerts) /\ at % 2 = 0) =>
                  LET layer2 == IF Layer2Due(det'.baseline_data, obs)
                                THEN <<Candidate("ANOMALOUS_TRAFFIC", "MEDIUM", obs.ip, 70)>>
                                ELSE <<>>
                      all == detect_layer1_attacks(obs) \o layer2
                             \o detect_layer3_patterns(record)
                             \o correlate_with_known_attacks(record)
                  IN  /\ Published = [i \in 1..(at \div 2) |-> Alert(all[i], record)]
                      /\ Len(Published) < Len(all)
                      /\ redis'.alerts_total = redis.alerts_total + Len(Published)
                      /\ last_id' = hist'.last.id
                      /\ messages' = Tail(messages)
                      /\ pc' = (IF Tail(messages) = <<>> THEN "loop" ELSE "dispatch")
                      /\ out' = out]_vars
    /\ [][DispatchStep => \A j \in 1..Len(hist.run_ids) : hist.run_ids[j] < hist'.last.id]_vars
    /\ \A id \in 1..MIN_BASELINE_SAMPLES : FailedPublish(id) ~> (Len(hist.run_ids) > id)

\* C23 witness: the XADD of the second alert of the tenth record has raised
\* (it is the last record of its batch): one alert of three is published,
\* the cursor is on the record and the loop is about to read again
C23_Witness ==
    /\ FailedPublish(10)
    /\ hist.last.published = 1
    /\ last_id = 10
    /\ pc = "loop"

\* the samples of the update_baseline calls made at the given times
SamplesAt(times) == [i \in 1..Len(times) |-> [timestamp |-> times[i], requests_per_minute |-> 1]]

\* C24: after any sequence of baseline ticks the window holds exactly the
\* samples of the ticks that are not older than 300 seconds at the last
\* tick, however many there are.
C24_WindowIsLast300s ==
    hist.ticks # <<>> =>
        LET last == hist.ticks[Len(hist.ticks)]
        IN  det.baseline_data = SamplesAt(SelectSeq(hist.ticks, LAMBDA t : t >= last - 300))

\* C25: the stored port list of a source never holds one value twice, and
\* its length, which is the distinct_ports of the observation, is the
\* number of distinct dest_port values observed for the source since the
\* list was last created; request_count and distinct_ports are not negative.
C25_PortsDeduplicated ==
    /\ \A ip \in ValidIPs :
          LET ports == redis.ports[ip].v
          IN  /\ \A i, j \in 1..Len(ports) :
                    PortValue(ports[i]) = PortValue(ports[j]) => i = j
              /\ (ports # <<>> =>
                    Len(ports) = Cardinality(hist.epoch_ports[ip]))
              /\ redis.count[ip].v >= 0
    /\ (hist.last.obs.some =>
          /\ Len(hist.last.obs.ports) = Cardinality(hist.epoch_ports[hist.last.obs.ip])
          /\ hist.last.obs.count >= 0)

\* C25 witness: the third observe of a source since its list was created
\* with 80.0 has returned two distinct ports: 80.0 and 22
C25_Witness ==
    /\ hist.last.obs.some
    /\ hist.last.obs.ip = "10.0.0.5"
    /\ hist.last.obs.count = 3
    /\ redis.ports["10.0.0.5"].v = <<FloatVal(80), IntVal(22)>>
    /\ hist.epoch_ports["10.0.0.5"] = {PortValue(DigitStr(80)), PortValue(IntVal(22))}
    /\ redis.first_seen["10.0.0.5"].at = now
    /\ Len(hist.last.obs.ports) = 2
    /\ Len(redis.ports["10.0.0.5"].v) = 2

\* both instances have processed the whole input stream
BothDone == \A i \in Instances : last_id[i] = Len(redis.stream)

\* the records of the input stream that come from a source
RecordsOf(ip) == {k \in 1..Len(redis.stream) : redis.stream[k].source_ip = ip}

RECURSIVE SentBy(_, _)
\* the number of alerts an instance has published for its first n records
SentBy(i, n) == IF n = 0 THEN 0 ELSE Len(hist.by[i][n].types) + SentBy(i, n - 1)

\* C26 as stated: with two uncoordinated instances every record is observed
\* by both (each source's counter is incremented twice per record) and each
\* alert triggered for a record is published, and counted, twice: once by
\* each instance.
C26_EveryAlertTwice ==
    BothDone =>
        /\ \A i \in Instances : Len(hist.by[i]) = Len(redis.stream)
        /\ \A ip \in ValidIPs : redis.count[ip].v = 2 * Cardinality(RecordsOf(ip))
        /\ \A k \in 1..Len(redis.stream) : hist.by[1][k].types = hist.by[2][k].types
        /\ redis.alerts_total = Len(redis.alerts)

\* the types whose rule reads the record alone
RecordOnly(types) ==
    SelectSeq(types, LAMBDA t : t \notin {"HIGH_REQUEST_RATE", "PORT_SCAN", "NEW_IP_ATTACK",
                                          "ANOMALOUS_TRAFFIC"})

\* C26 amended: every record is observed by both instances (each source's
\* counter is incremented twice per record), every alert of Layers 3 and 4
\* is published by each instance, and every published alert is counted
\* once in the global total.
C26_RecordAlertsTwice ==
    BothDone =>
        /\ \A i \in Instances : Len(hist.by[i]) = Len(redis.stream)
        /\ \A ip \in ValidIPs : redis.count[ip].v = 2 * Cardinality(RecordsOf(ip))
        /\ \A i \in Instances : \A k \in 1..Len(redis.stream) :
              LET record == redis.stream[k]
                  made == detect_layer3_patterns(record) \o correlate_with_known_attacks(record)
              IN  /\ RecordOnly(hist.by[i][k].types) = [n \in 1..Len(made) |-> made[n].type]
                  /\ hist.by[i][k].obs.some = (record.source_ip \notin {"", "nan"})
        /\ Len(redis.alerts) = SentBy(1, Len(redis.stream)) + SentBy(2, Len(redis.stream))
        /\ redis.alerts_total = Len(redis.alerts)

\* C26 witness: both instances have processed three records of one source;
\* its counter stands at 6, and the second instance alone has raised
\* HIGH_REQUEST_RATE for the third record
C26_Witness ==
    /\ BothDone
    /\ Len(redis.stream) = 3
    /\ redis.count["10.0.0.5"].v = 6
    /\ hist.by[1][3].types = <<"SYN_FLOOD_SUSPECT", "KNOWN_SYN_FLOOD">>
    /\ hist.by[2][3].types = <<"HIGH_REQUEST_RATE", "SYN_FLOOD_SUSPECT", "KNOWN_SYN_FLOOD">>

\* the step is an observe call for the source
ObservedStep(ip) ==
    /\ now' = now
    /\ hist'.last.obs.some
    /\ hist'.last.obs.ip = ip
    /\ redis'.count[ip] # redis.count[ip]

\* C27: every observe of a source adds one to its counter and sets the
\* counter's expiry to 60 seconds from now; nothing else moves the expiry,
\* and the counter is dropped only when 60 seconds have passed since the
\* last observe: a source seen within every 60 seconds keeps its counter.
C27_CounterTtlSlides ==
    [][\A ip \in ValidIPs :
          /\ ObservedStep(ip) =>
                /\ redis'.count[ip].v = redis.count[ip].v + 1
                /\ redis'.count[ip].exp = now + 60
          /\ (~ObservedStep(ip) /\ redis'.count[ip].v > 0) =>
                redis'.count[ip] = redis.count[ip]
          /\ (redis.count[ip].v > 0 /\ redis'.count[ip].v = 0) =>
                now' >= redis.count[ip].exp
          /\ (redis'.count[ip].v > 0) => redis'.count[ip].exp > now']_vars

\* C27 witness: a counter created at 0 and incremented at 30 is alive at 60
\* and is incremented again
C27_Witness ==
    /\ now = 60
    /\ redis.first_seen["10.0.0.5"].at = 0
    /\ redis.ports["10.0.0.5"].exp = 90
    /\ redis.count["10.0.0.5"].v = 3
    /\ redis.count["10.0.0.5"].exp = 120

\* C28: an observe call whose dest_port is not in the source's stored list
\* appends it and sets the list's expiry to 60 seconds from now; an observe
\* call whose dest_port is in the list leaves the list and its expiry as
\* they are; nothing else changes a list that stays.
C28_PortsTtlOnNewPort ==
    [][\A ip \in ValidIPs :
          LET old == redis.ports[ip]
              new == redis'.ports[ip]
              absent == old.v = <<>> \/ hist'.epoch_ports[ip] # hist.epoch_ports[ip]
          IN  /\ (ObservedStep(ip) /\ absent) =>
                    /\ Len(new.v) = Len(old.v) + 1
                    /\ SubSeq(new.v, 1, Len(old.v)) = old.v
                    /\ PortValue(new.v[Len(new.v)]) \in hist'.epoch_ports[ip]
                    /\ new.exp = now + 60
              /\ (ObservedStep(ip) /\ ~absent) => new = old
              /\ (~ObservedStep(ip) /\ new.v # <<>>) => new = old]_vars

\* C28 witness: a source seen at 0 with port 80 is seen at 30 with the same
\* port: the counter expires at 90, the list holds 80 alone and expires at 60
C28_Witness ==
    /\ now = 30
    /\ hist.last.obs.ip = "10.0.0.5"
    /\ hist.last.obs.count = 2
    /\ hist.last.obs.ports = <<IntVal(80)>>
    /\ redis.count["10.0.0.5"].exp = 90
    /\ redis.ports["10.0.0.5"] = [v |-> <<IntVal(80)>>, exp |-> 60]

\* C29: an observe call writes first_seen for its source, with the current
\* time and an expiry one hour from now, exactly when the source has no
\* first_seen entry; while the entry exists no observe call and no other
\* step changes its value or its expiry, and it goes only when the hour
\* has passed.
C29_FirstSeenWrittenOnce ==
    [][\A ip \in ValidIPs :
          LET old == redis.first_seen[ip]
              new == redis'.first_seen[ip]
          IN  /\ (ObservedStep(ip) /\ ~old.set) =>
                    new = [set |-> TRUE, at |-> now, exp |-> now + 3600]
              /\ (ObservedStep(ip) /\ old.set) => new = old
              /\ (~ObservedStep(ip) /\ new.set) => new = old
              /\ (old.set /\ ~new.set) => now' >= old.exp]_vars

\* C29 witness: a source first seen at 0 is seen again half an hour later:
\* its counter is new, its first_seen entry is the one of time 0
C29_Witness ==
    /\ now = 1800
    /\ hist.last.obs.ip = "10.0.0.5"
    /\ hist.last.obs.count = 1
    /\ redis.count["10.0.0.5"].exp = 1860
    /\ redis.first_seen["10.0.0.5"] = [set |-> TRUE, at |-> 0, exp |-> 3600]

\* C30: the baseline mean and standard deviation in the store are written only
\* by a process_record step that leaves at least 10 samples in the window.
\* A step over one of the first 9 records of a run, or one whose window holds
\* fewer than 10 samples after the old ones were dropped, leaves both keys as
\* they were; the only other change the keys see is their expiry.  A step
\* that meets no fault and leaves 10 samples or more writes both keys anew.
C30_BaselineNeedsTenSamples ==
    [][LET wrote_avg == redis'.baseline_avg.set /\ redis'.baseline_avg # redis.baseline_avg
           wrote_std == redis'.baseline_std.set /\ redis'.baseline_std # redis.baseline_std
       IN  /\ (wrote_avg \/ wrote_std) =>
                 (/\ DispatchStep
                  /\ Len(det'.baseline_data) >= 10
                  /\ Len(hist'.run_ids) >= 10
                  /\ redis'.baseline_avg.exp = now + 300
                  /\ redis'.baseline_std.exp = now + 300)
           /\ (DispatchStep /\ Len(det'.baseline_data) < 10) =>
                 (/\ redis'.baseline_avg = redis.baseline_avg
                  /\ redis'.baseline_std = redis.baseline_std)
           /\ (DispatchStep /\ Len(hist'.run_ids) <= 9) =>
                 (/\ redis'.baseline_avg = redis.baseline_avg
                  /\ redis'.baseline_std = redis.baseline_std)
           /\ (DispatchStep /\ Len(det'.baseline_data) >= 10) =>
                 (/\ redis'.baseline_avg.set
                  /\ redis'.baseline_avg.den = Len(det'.baseline_data)
                  /\ redis'.baseline_avg.exp = now + 300
                  /\ redis'.baseline_std.set
                  /\ redis'.baseline_std.exp = now + 300)]_vars

\* C30 witness: the tenth record wrote the keys at 200 s; 200 s later the
\* eleventh finds 6 samples left in the window and leaves the keys alone
C30_Witness ==
    /\ redis.stream = LongStream
    /\ Len(hist.run_ids) = 11
    /\ now = 400
    /\ Len(det.baseline_data) = 6
    /\ redis.baseline_avg = [set |-> TRUE, num |-> 10, den |-> 10, exp |-> 500]
    /\ redis.baseline_std = [set |-> TRUE, sq |-> 0, exp |-> 500]

\* C31: every sample of the baseline window has the value 1, so the mean the
\* store holds is 1 and the standard deviation 0, and no ANOMALOUS_TRAFFIC
\* alert is ever in the alerts stream.
C31_BaselineIsConstant ==
    /\ \A i \in 1..Len(det.baseline_data) : det.baseline_data[i].requests_per_minute = 1
    /\ redis.baseline_avg.set => redis.baseline_avg.num = redis.baseline_avg.den
    /\ redis.baseline_std.set => redis.baseline_std.sq = 0
    /\ \A i \in 1..Len(redis.alerts) : redis.alerts[i].alert_type # "ANOMALOUS_TRAFFIC"

\* C31 witness: the eleventh record of a source has been processed, its count
\* of 11 far above the mean of 1 that Layer 2 has just stored
C31_Witness ==
    /\ Len(hist.run_ids) = 11
    /\ Len(det.baseline_data) = 11
    /\ hist.last.obs.some
    /\ hist.last.obs.count = 11
    /\ redis.baseline_avg.set
    /\ redis.baseline_avg.num = 11
    /\ redis.baseline_avg.den = 11
    /\ redis.baseline_std.set
    /\ redis.alerts # <<>>

\* C32: in a run that starts from an empty store and in which no
\* process_record call has met a fault, an observation has is_new_ip only
\* when it is the first of its source, and then its count is 1; the source
\* is in the recency map when the call returns; and no NEW_IP_ATTACK alert
\* is published.
C32_NoNewIpAttack ==
    [][(DispatchStep /\ hist'.faults = 0 /\ hist'.last.halt = "none") =>
          LET obs == hist'.last.obs
          IN  /\ (obs.some /\ obs.is_new_ip) =>
                    (obs.count = 1 /\ obs.ip \notin hist.sources)
              /\ obs.some => obs.ip \in det'.ip_history
              /\ \A i \in 1..Len(redis'.alerts) :
                    redis'.alerts[i].alert_type # "NEW_IP_ATTACK"]_vars

\* C32 witness: the third record of a source, processed without fault: its
\* count of 3 is above the threshold for new sources, but the source is known
C32_Witness ==
    /\ hist.faults = 0
    /\ hist.last.halt = "none"
    /\ Len(hist.run_ids) = 3
    /\ hist.last.obs.some
    /\ hist.last.obs.count = 3
    /\ ~hist.last.obs.is_new_ip
    /\ hist.last.obs.ip \in det.ip_history
    /\ redis.alerts # <<>>

\* C33: the processed-record count held in the store never goes down, a new
\* start of the consumer included.
C33_ProcessedNeverDecreases ==
    [][redis'.processed_records >= redis.processed_records]_vars

\* C34: every per-source request counter the store holds has an expiry, at
\* most 60 seconds ahead, also after a call that a store fault has cut short.
C34_CounterAlwaysExpires ==
    \A ip \in StoreIPs :
        redis.count[ip].v > 0 =>
            (/\ redis.count[ip].exp # NoExpiry
             /\ redis.count[ip].exp <= now + 60)

\* process_record up to the for loop over the alerts, when no call fails:
\* the Redis calls made so far (n) and the candidates of the four layers
BeforeEmit(record) ==
    RunLayers(Phase(Baseline(update_ip_counters(Work(redis, det, now, 0, "none"), record)),
                    "rules"),
              record)

\* C35: when a Redis call of generate_alert raises for candidate j of a
\* record, the candidates before j are in the alerts stream and counted, j
\* itself is there only when its XADD was not the call that raised, and no
\* later candidate is published; neither copy of the processed count moves
\* and the recency map is not written; the counter of the source stays
\* incremented and its port list stays as the call wrote it.
C35_EmitFaultAbortsRecord ==
    [][LET record == Dispatching
           before == BeforeEmit(record)
           all == before.alerts
           k == hist'.last.fa - before.n
           j == (k + 1) \div 2
           sent == IF k % 2 = 1 THEN j - 1 ELSE j
           obs == hist'.last.obs
       IN  (/\ DispatchStep
            /\ hist'.last.fk = "raise"
            /\ k >= 1
            /\ k <= 2 * Len(all)) =>
              (/\ Published = [i \in 1..sent |-> Alert(all[i], record)]
               /\ redis'.alerts_total = redis.alerts_total + (j - 1)
               /\ det'.alerts_generated = det.alerts_generated + sent
               /\ det'.processed_records = det.processed_records
               /\ redis'.processed_records = redis.processed_records
               /\ det'.ip_history = det.ip_history
               /\ obs = before.ip_data
               /\ (obs.some =>
                     (/\ redis'.count[obs.ip].v = redis.count[obs.ip].v + 1
                      /\ redis'.count[obs.ip].exp = now + 60
                      /\ redis'.ports[obs.ip].v = obs.ports)))]_vars

\* C35 witness: the sixth record of a source has several candidates; the
\* INCR after the first XADD raised: one alert published, none after it, the
\* counter at 6, five records counted as processed
C35_Witness ==
    /\ hist.last.fk = "raise"
    /\ hist.last.phase = "emit"
    /\ hist.last.published = 1
    /\ hist.last.obs.some
    /\ hist.last.obs.count = 6
    /\ redis.count[hist.last.obs.ip].v = 6
    /\ det.processed_records = 5
    /\ redis.processed_records = 5
    /\ redis.alerts_total = Len(redis.alerts) - 1

\* C36: a record whose source_ip is empty or 'nan', processed without a
\* fault, yields no observation but goes through the rest of the pipeline:
\* one sample is added to the baseline window, the alerts of Layers 3 and 4
\* for the record are published, both copies of the processed count go up
\* by one and the cursor moves to the record.
C36_InvalidSourceStillProcessed ==
    [][LET record == Dispatching
           found == detect_layer3_patterns(record) \o correlate_with_known_attacks(record)
       IN  (/\ DispatchStep
            /\ hist'.last.fk = "none"
            /\ record.source_ip \in {"", "nan"}) =>
              (/\ ~hist'.last.obs.some
               /\ det'.baseline_data =
                     Append(det.baseline_data, [timestamp |-> now, requests_per_minute |-> 1])
               /\ Published = [i \in 1..Len(found) |-> Alert(found[i], record)]
               /\ det'.processed_records = det.processed_records + 1
               /\ redis'.processed_records = det.processed_records + 1
               /\ last_id' = hist'.last.id)]_vars

\* C36 witness: the tenth record of the stream has the source 'nan'; it has
\* been processed, alerts of Layers 3 and 4 have been published for it and
\* the window holds its sample
C36_Witness ==
    /\ hist.last.id = 10
    /\ redis.stream[10].source_ip = "nan"
    /\ hist.last.fk = "none"
    /\ ~hist.last.obs.some
    /\ hist.last.published >= 2
    /\ Len(det.baseline_data) = 10
    /\ det.processed_records = 10
    /\ redis.processed_records = 10
    /\ last_id = 10

\* the alerts of a type among those the step has published
PublishedOf(type) == SelectSeq(Published, LAMBDA a : a.alert_type = type)

\* C37: every record of a source whose count is above 5 gets its own
\* HIGH_REQUEST_RATE alert and every record observed with more than 3 ports
\* its own PORT_SCAN alert, whatever was published before; so after n
\* records of a source in one counter epoch the alerts stream holds
\* max(0, n - 5) HIGH_REQUEST_RATE alerts for it.
C37_NoSuppression ==
    /\ [][DispatchStep =>
            LET obs == hist'.last.obs
            IN  /\ obs.some
                /\ Len(PublishedOf("HIGH_REQUEST_RATE")) = (IF obs.count > 5 THEN 1 ELSE 0)
                /\ Len(PublishedOf("PORT_SCAN")) = (IF Len(obs.ports) > 3 THEN 1 ELSE 0)]_vars
    /\ [](LET n == Len(hist.run_ids)
          IN  redis.count["10.0.0.5"].v = n =>
                 Len(AlertsOf("HIGH_REQUEST_RATE", "10.0.0.5")) = (IF n > 5 THEN n - 5 ELSE 0))

\* C37 witness: eight records of the source, each to a port of its own, in
\* one counter epoch: three HIGH_REQUEST_RATE alerts (records 6 to 8) and
\* five PORT_SCAN alerts (records 4 to 8)
C37_Witness ==
    /\ Len(hist.run_ids) = 8
    /\ redis.count["10.0.0.5"].v = 8
    /\ Len(hist.last.obs.ports) = 8
    /\ Len(AlertsOf("HIGH_REQUEST_RATE", "10.0.0.5")) = 3
    /\ Len(AlertsOf("PORT_SCAN", "10.0.0.5")) = 5

\* C38: every observation has at most as many ports as its count says
\* requests, so that an observation with more than 3 ports (PORT_SCAN) is
\* at least the 4th of its counter epoch.
C38_PortsAtMostCount ==
    hist.last.obs.some => Len(hist.last.obs.ports) <= hist.last.obs.count

====
